---- MODULE Spec2Model ----
(***************************************************************************)
(* Model of the multi-zone data sync engine of src/rgw/rgw_data_sync.cc.   *)
(*                                                                         *)
(* Four layers, each over its own variables, and their specifications:     *)
(*   SpecTracker       the marker trackers (RGWSyncShardMarkerTrack<T> and *)
(*                     its three subclasses) driven by start / finish;     *)
(*   Spec              one datalog shard in its incremental phase          *)
(*                     (RGWDataSyncShardCR) with its single-entry workers  *)
(*                     (RGWDataSyncSingleEntryCR) and its notifications;   *)
(*   SpecShardFull     the same shard from its full sync on;               *)
(*   SpecShardResume   the same, with the full sync interrupted and the    *)
(*                     shard coroutine created again;                      *)
(*   SpecBucket        the bucket-shard sync (RGWRunBucketSyncCoroutine)   *)
(*                     with its init, full and incremental phases, their   *)
(*                     per-object workers (RGWBucketSyncSingleEntryCR),    *)
(*                     and later runs on the same bucket shard;            *)
(*   SpecBucketPair    two runs of the bucket-shard sync at once;          *)
(*   SpecZone          run_sync, zone init, the index build and the shard  *)
(*                     coroutines of the zone (RGWRemoteDataLog,           *)
(*                     RGWDataSyncCR);                                     *)
(*   SpecStatusAbsent  the zone layer or the bucket shard layer, started   *)
(*                     with its status object absent.                      *)
(*                                                                         *)
(* Markers are represented by their rank in the source order: 0 is the     *)
(* empty marker, 1 the first entry of the log or listing.  Only the        *)
(* key <-> marker maps of the datalog tracker hold strings, as in the      *)
(* source (map<string, string>).                                           *)
(***************************************************************************)
EXTENDS Naturals, Integers, Sequences, FiniteSets, TLC

(***************************************************************************)
(* Program constants.                                                      *)
(***************************************************************************)
DATA_SYNC_UPDATE_MARKER_WINDOW == 1
BUCKET_SYNC_UPDATE_MARKER_WINDOW == 10

(***************************************************************************)
(* Bounds of the model.                                                    *)
(***************************************************************************)
\* markers started in the tracker layer
MaxMarker == 11
\* markers in flight at once in the tracker layer
MaxInFlight == 3
\* entries the remote datalog shard comes to hold
MaxLog == 2
\* entries the peer returns in one page of the datalog shard
LogPage == 2
\* wakeup calls made by the local write path
MaxWakeups == 1

\* objects the peer's bucket shard listing holds
MaxObjs == 2
\* entries the peer's bucket index log comes to hold
MaxBilog == 2
\* entries the peer returns in one page of a bucket listing or bucket index log
ListPage == 1

\* shards of the peer's datalog (num_shards given to run_sync)
NumShards == 2
\* the highest head marker a shard of the peer's datalog reaches
MaxHead == 1
\* run_sync invocations
MaxRuns == 2
\* keys one read of the full-sync index returns (OMAP_GET_MAX_ENTRIES in the source)
OmapPage == 1
\* children a bucket-shard run keeps spawned before it waits for one
\* (spawn_window, BUCKET_SYNC_SPAWN_WINDOW in the source)
SpawnWindow == 1
\* times the bucket-shard sync is run on the bucket shard, one after the other
MaxPasses == 2
\* times the shard coroutine is created while its marker is in FullSync
MaxFullRuns == 2

\* error codes
EIO == 0 - 5
ENOENT == 0 - 2
EINVAL == 0 - 22

Max(S) == CHOOSE x \in S : \A y \in S : y <= x
Min(S) == CHOOSE x \in S : \A y \in S : x <= y

(***************************************************************************)
(* RGWSyncShardMarkerTrack<T>: the sliding-window tracker base class.      *)
(* A tracker is a record                                                   *)
(*   pending         markers started and not finished                      *)
(*   finish_markers  markers finished and not yet covered by a commit      *)
(*   ipos            index_pos given to start, per tracked marker          *)
(*   updates         finishes since the last commit                        *)
(*   window          the update window                                     *)
(***************************************************************************)
NewTracker(window) ==
  [pending |-> {}, finish_markers |-> {}, ipos |-> <<>>,
   updates |-> 0, window |-> window]

\* start(marker, index_pos, ts): register marker as in flight
TrackStart(t, m, index_pos) ==
  [t EXCEPT !.pending = @ \cup {m}, !.ipos = (m :> index_pos) @@ @]

\* finish(marker): the tracker after the call, whether store_marker is
\* called, and the marker and index_pos handed to it
TrackFinish(t, m) ==
  IF m \notin t.pending
  THEN [t |-> t, store |-> FALSE, marker |-> 0, index_pos |-> 0]
  ELSE
    LET is_first  == m = Min(t.pending)
        pend      == t.pending \ {m}
        fin       == t.finish_markers \cup {m}
        upd       == t.updates + 1
        flush     == is_first /\ (upd >= t.window \/ pend = {})
        covered   == {x \in fin : \A p \in pend : x < p}
        high      == Max(covered)
        keep      == IF flush THEN pend \cup (fin \ covered) ELSE pend \cup fin
    IN [t |-> [pending        |-> pend,
               finish_markers |-> IF flush THEN fin \ covered ELSE fin,
               ipos           |-> [x \in keep |-> t.ipos[x]],
               updates        |-> IF flush THEN 0 ELSE upd,
               window         |-> t.window],
        store     |-> flush,
        marker    |-> IF flush THEN high ELSE 0,
        index_pos |-> IF flush THEN t.ipos[high] ELSE 0]

(***************************************************************************)
(* store_marker of the three trackers: each updates the tracker's own      *)
(* sync_marker and writes it out.                                          *)
(***************************************************************************)
DataStoreMarker_KeepMarker(sync_marker, new_marker, index_pos) ==
  [sync_marker EXCEPT !.pos = index_pos]

\* RGWDataSyncShardMarkerTrack::store_marker
DataStoreMarker(sync_marker, new_marker, index_pos) ==
  [sync_marker EXCEPT !.marker = new_marker, !.pos = index_pos]

\* RGWBucketFullSyncShardMarkerTrack::store_marker
FullStoreMarker(sync_marker, new_marker, index_pos) ==
  [sync_marker EXCEPT !.position = new_marker, !.count = index_pos]

\* RGWBucketIncSyncShardMarkerTrack::store_marker
IncStoreMarker(sync_marker, new_marker, index_pos) ==
  [sync_marker EXCEPT !.position = new_marker]

\* rgw_data_sync_marker, rgw_bucket_shard_full_sync_marker and
\* rgw_bucket_shard_inc_sync_marker as default-constructed
NewDataSyncMarker ==
  [state |-> "FullSync", marker |-> 0, next_step_marker |-> 0, total_entries |-> 0,
   pos |-> 0, timestamp |-> 0]
NewFullMarker == [position |-> 0, count |-> 0]
NewIncMarker == [position |-> 0]

(***************************************************************************)
(* RGWDataSyncShardMarkerTrack: the key <-> marker maps and the retry set. *)
(* The three members are kept in a record                                  *)
(*   key_to_marker, marker_to_key   map<string, string>                    *)
(*   need_retry_set                 set<string>                            *)
(***************************************************************************)
NewDataTrack == [key_to_marker |-> <<>>, marker_to_key |-> <<>>, need_retry_set |-> {}]

MapErase(f, k) == [x \in DOMAIN f \ {k} |-> f[x]]
MapSet(f, k, v) == [x \in DOMAIN f \cup {k} |-> IF x = k THEN v ELSE f[x]]

IndexKeyToMarker_NoCheck(dt, key, marker) ==
  [dt |-> [dt EXCEPT !.key_to_marker = MapSet(@, key, marker),
                     !.marker_to_key = MapSet(@, marker, key)],
   ok |-> TRUE]

\* index_key_to_marker(key, marker): the members after the call and its result
IndexKeyToMarker(dt, key, marker) ==
  IF key \in DOMAIN dt.key_to_marker
  THEN [dt |-> [dt EXCEPT !.need_retry_set = @ \cup {key}], ok |-> FALSE]
  ELSE [dt |-> [dt EXCEPT !.key_to_marker = MapSet(@, key, marker),
                          !.marker_to_key = MapSet(@, marker, key)],
        ok |-> TRUE]

NeedRetry(dt, key) == key \in dt.need_retry_set

ResetNeedRetry(dt, key) == [dt EXCEPT !.need_retry_set = @ \ {key}]

\* handle_finish(marker)
HandleFinish(dt, marker) ==
  IF marker \notin DOMAIN dt.marker_to_key
  THEN dt
  ELSE [key_to_marker  |-> MapErase(dt.key_to_marker, dt.marker_to_key[marker]),
        marker_to_key  |-> MapErase(dt.marker_to_key, marker),
        need_retry_set |-> dt.need_retry_set \ {marker}]

\* the string of a datalog entry's log_id, by rank; the empty marker is ""
LogIdStr(i) == IF i = 0 THEN "" ELSE "L" \o ToString(i)

\* bucket-shard keys the datalog carries
BucketShardKeys == {"b1:A:0", "b2:B:0", "b1:A:x"}

\* the characters of a key
KeyChars(key) ==
  IF key = "b1:A:0" THEN <<"b", "1", ":", "A", ":", "0">>
  ELSE IF key = "b2:B:0" THEN <<"b", "2", ":", "B", ":", "0">>
  ELSE IF key = "b1:A:x" THEN <<"b", "1", ":", "A", ":", "x">>
  ELSE <<>>

\* string::find(':') : the 0-based position of the first ':' or -1 (npos)
FindColon(str) ==
  IF \E i \in DOMAIN str : str[i] = ":"
  THEN Min({i \in DOMAIN str : str[i] = ":"}) - 1
  ELSE 0 - 1

\* string::substr(pos) and string::substr(0, n), n = -1 standing for npos
SubstrFrom(str, pos) == SubSeq(str, pos + 1, Len(str))
SubstrTo(str, n) == IF n < 0 THEN str ELSE SubSeq(str, 1, n)

Digits == <<"0", "1", "2", "3", "4", "5", "6", "7", "8", "9">>

\* strict_strtol(s, 10, &err): the value, and whether err is set
StrictStrtol(str) ==
  LET val[n \in 0..Len(str)] ==
        IF n = 0 THEN 0
        ELSE 10 * val[n - 1] + (CHOOSE d \in DOMAIN Digits : Digits[d] = str[n]) - 1
      bad == str = <<>> \/ \E i \in DOMAIN str : \A d \in DOMAIN Digits : Digits[d] # str[i]
  IN [err |-> bad, value |-> IF bad THEN 0 ELSE val[Len(str)]]

\* parse_bucket_shard(raw_key): its return code and the three outputs
ParseBucketShard(raw_key) ==
  LET str == KeyChars(raw_key)
      pos == FindColon(str)
      bucket_name == SubstrTo(str, pos)
      bucket_instance == SubstrFrom(str, pos + 1)
      pos2 == FindColon(bucket_instance)
      conv == StrictStrtol(SubstrFrom(bucket_instance, pos2 + 1))
  IN IF pos2 >= 0
     THEN IF conv.err
          THEN [ret |-> EINVAL, bucket_name |-> bucket_name,
                bucket_instance |-> bucket_instance, shard_id |-> 0]
          ELSE [ret |-> 0, bucket_name |-> bucket_name,
                bucket_instance |-> SubstrTo(bucket_instance, pos2),
                shard_id |-> conv.value]
     ELSE [ret |-> 0, bucket_name |-> bucket_name,
           bucket_instance |-> bucket_instance, shard_id |-> 0 - 1]

(***************************************************************************)
(* State.                                                                  *)
(***************************************************************************)
VARIABLES
  \* tracker layer: one tracker of a given kind and its status object
  tk_kind,          \* "datalog", "bucket_full" or "bucket_inc"
  tk,               \* the tracker
  tk_sync_marker,   \* the tracker's sync_marker member
  tk_obj,           \* the marker as persisted by the last store_marker
  tk_next,          \* the next marker the caller starts
  tk_finished,      \* markers the caller has finished
  tk_writes,        \* number of store_marker calls
  \* datalog shard layer: the peer's datalog shard, one RGWDataSyncShardCR
  datalog,          \* the peer's datalog shard: entry i has log_id i and key datalog[i]
  wakeups,          \* wakeup calls made so far
  shard_obj,        \* the persisted datalog-shard marker object
  sh_pc,            \* position of the shard coroutine
  sync_marker,      \* RGWDataSyncShardCR::sync_marker
  modified_shards,  \* guarded by inc_lock
  current_modified,
  modified_iter,    \* keys of current_modified not yet visited
  datalog_marker,
  log_entries,      \* the page last fetched
  log_iter,         \* index in log_entries of the entry to visit next
  marker_tracker,   \* the tracker base class state
  mt_sync_marker,   \* the tracker's sync_marker member
  data_track,       \* the tracker's maps and retry set
  workers,          \* the RGWDataSyncSingleEntryCR spawned so far, in spawn order
  omap_index,       \* the keys of the shard's full-sync index object, in key order
  entries,          \* the page of index keys last fetched, by rank in omap_index
  entries_iter,     \* index in entries of the key to visit next
  total_entries,    \* RGWDataSyncShardCR::total_entries
  full_runs,        \* times the shard coroutine has been created in state FullSync
  peer_keys,        \* the bucket-shard keys the peer's datalog and its notifications carry
  peer_wakeups,     \* the wakeup calls the local writer makes
  \* bucket shard layer: one bucket shard of the peer and the runs of
  \* RGWRunBucketSyncCoroutine on it
  bilog_len,        \* entries in the peer's bucket index log: ids 1..bilog_len
  bucket_obj,       \* the persisted bucket-shard status, as decode_from_attrs reads it
  bucket_exists,    \* whether the bucket-shard status object exists
  bucket_locked,    \* whether sync_lock is held on the status object
  run,              \* per run: the coroutine's position and members
  peer_instances,   \* the instance values the peer's bucket gives its entries
  peer_ops,         \* the ops the peer's bucket index log carries
  transfer_rcs,     \* the return codes a fetch or remove can come back with
  init_rcs,         \* the return codes a call made by init can come back with
  \* zone layer: the zone status object, the per-shard marker objects, the
  \* full-sync index and one RGWRemoteDataLog driving them
  remote_info,      \* per shard of the peer's datalog: its head marker and last_update
  zone_obj,         \* the persisted rgw_data_sync_info: <<>> when absent, else <<info>>
  zone_locked,      \* whether sync_lock is held on the zone status object
  zshard_obj,       \* per shard, the persisted rgw_data_sync_marker: <<>> or <<marker>>
  full_index,       \* per shard, the keys of its persisted full-sync index
  zruns,            \* run_sync calls made so far
  zd                \* position and members of run_sync and the coroutines it runs

tvars == <<tk_kind, tk, tk_sync_marker, tk_obj, tk_next, tk_finished, tk_writes>>

fvars == <<omap_index, entries, entries_iter, total_entries, full_runs>>

skeys == <<peer_keys, peer_wakeups>>

svars == <<datalog, wakeups, shard_obj, sh_pc, sync_marker, modified_shards,
           current_modified, modified_iter, datalog_marker, log_entries, log_iter,
           marker_tracker, mt_sync_marker, data_track, workers, fvars, skeys>>

envvars == <<peer_instances, peer_ops, transfer_rcs, init_rcs>>

bvars == <<bilog_len, bucket_obj, bucket_exists, bucket_locked, run, envvars>>

zvars == <<remote_info, zone_obj, zone_locked, zshard_obj, full_index, zruns, zd>>

vars == <<tvars, svars, bvars, zvars>>

(***************************************************************************)
(* Tracker layer.                                                          *)
(***************************************************************************)
TrackerKinds == {"datalog", "bucket_full", "bucket_inc"}

\* the window each subclass hands to the base class constructor
TrackerWindow(kind) ==
  IF kind = "datalog" THEN DATA_SYNC_UPDATE_MARKER_WINDOW
  ELSE BUCKET_SYNC_UPDATE_MARKER_WINDOW

\* the sync_marker member each tracker is constructed with
TrackerSyncMarker(kind) ==
  IF kind = "datalog" THEN NewDataSyncMarker
  ELSE IF kind = "bucket_full" THEN NewFullMarker
  ELSE NewIncMarker

\* the virtual store_marker call of finish
StoreMarker(kind, sm, new_marker, index_pos) ==
  IF kind = "datalog" THEN DataStoreMarker(sm, new_marker, index_pos)
  ELSE IF kind = "bucket_full" THEN FullStoreMarker(sm, new_marker, index_pos)
  ELSE IncStoreMarker(sm, new_marker, index_pos)

\* the position field of a persisted marker
StoredPosition(kind, obj) ==
  IF kind = "datalog" THEN obj.marker ELSE obj.position

\* the tracker layer at rest, for the specifications of the other layers
TOff ==
  /\ tk_kind = "datalog"
  /\ tk = NewTracker(DATA_SYNC_UPDATE_MARKER_WINDOW)
  /\ tk_sync_marker = NewDataSyncMarker
  /\ tk_obj = NewDataSyncMarker
  /\ tk_next = 1
  /\ tk_finished = {}
  /\ tk_writes = 0

TInit ==
  /\ tk_kind \in TrackerKinds
  /\ tk = NewTracker(TrackerWindow(tk_kind))
  /\ tk_sync_marker = TrackerSyncMarker(tk_kind)
  /\ tk_obj = TrackerSyncMarker(tk_kind)
  /\ tk_next = 1
  /\ tk_finished = {}
  /\ tk_writes = 0

\* the caller registers the next entry of its log or listing; the incremental
\* callers pass index_pos 0, the full-sync callers their running entry count
TkStart ==
  /\ tk_next <= MaxMarker
  /\ Cardinality(tk.pending) < MaxInFlight
  /\ tk' = TrackStart(tk, tk_next, IF tk_kind = "bucket_inc" THEN 0 ELSE tk_next)
  /\ tk_next' = tk_next + 1
  /\ UNCHANGED <<tk_kind, tk_sync_marker, tk_obj, tk_finished, tk_writes>>
  /\ UNCHANGED <<svars, bvars, zvars>>

\* a worker finishes its entry marker, in any order
TkFinish(m) ==
  /\ m \in tk.pending
  /\ LET r == TrackFinish(tk, m)
     IN /\ tk' = r.t
        /\ tk_finished' = tk_finished \cup {m}
        /\ IF r.store
           THEN /\ tk_sync_marker' = StoreMarker(tk_kind, tk_sync_marker, r.marker, r.index_pos)
                /\ tk_obj' = tk_sync_marker'
                /\ tk_writes' = tk_writes + 1
           ELSE UNCHANGED <<tk_sync_marker, tk_obj, tk_writes>>
  /\ UNCHANGED <<tk_kind, tk_next>>
  /\ UNCHANGED <<svars, bvars, zvars>>

TNext ==
  \/ TkStart
  \/ \E m \in 1..MaxMarker : TkFinish(m)

(***************************************************************************)
(* Datalog shard layer: RGWDataSyncShardCR::incremental_sync and the       *)
(* RGWDataSyncSingleEntryCR workers it spawns.                             *)
(***************************************************************************)
\* a worker as constructed by spawn: raw_key, entry_marker (0: empty),
\* its position, and its sync_status and retcode members
NewWorker(raw_key, entry_marker) ==
  [raw_key |-> raw_key, entry_marker |-> entry_marker, pc |-> "start",
   sync_status |-> 0, retcode |-> 0]

\* no full-sync pass of the shard coroutine is under way
FOff ==
  /\ omap_index = <<>>
  /\ entries = <<>>
  /\ entries_iter = 1
  /\ total_entries = 0
  /\ full_runs = 0

\* the environments of the shard: two keys and few notifications, one key and
\* more notifications, and a datalog that carries a key with a malformed shard id
ShardEnvs ==
  {[keys |-> {"b1:A:0", "b2:B:0"}, wakeups |-> MaxWakeups],
   [keys |-> {"b1:A:0"}, wakeups |-> MaxWakeups + 1],
   [keys |-> {"b1:A:0", "b1:A:x"}, wakeups |-> 0]}

\* the shard coroutine on entry to its incremental phase: the persisted marker
\* is in IncrementalSync and the tracker has just been created from it
SInit ==
  /\ datalog = <<>>
  /\ wakeups = 0
  /\ shard_obj = [NewDataSyncMarker EXCEPT !.state = "IncrementalSync"]
  /\ sh_pc = "inc_drain"
  /\ sync_marker = [NewDataSyncMarker EXCEPT !.state = "IncrementalSync"]
  /\ modified_shards = {}
  /\ current_modified = {}
  /\ modified_iter = {}
  /\ datalog_marker = 0
  /\ log_entries = <<>>
  /\ log_iter = 1
  /\ marker_tracker = NewTracker(DATA_SYNC_UPDATE_MARKER_WINDOW)
  /\ mt_sync_marker = [NewDataSyncMarker EXCEPT !.state = "IncrementalSync"]
  /\ data_track = NewDataTrack
  /\ workers = <<>>
  /\ FOff
  /\ \E e \in ShardEnvs : peer_keys = e.keys /\ peer_wakeups = e.wakeups

\* the datalog shard layer at rest
SOff ==
  /\ datalog = <<>>
  /\ wakeups = 0
  /\ shard_obj = NewDataSyncMarker
  /\ sh_pc = "off"
  /\ sync_marker = NewDataSyncMarker
  /\ modified_shards = {}
  /\ current_modified = {}
  /\ modified_iter = {}
  /\ datalog_marker = 0
  /\ log_entries = <<>>
  /\ log_iter = 1
  /\ marker_tracker = NewTracker(DATA_SYNC_UPDATE_MARKER_WINDOW)
  /\ mt_sync_marker = NewDataSyncMarker
  /\ data_track = NewDataTrack
  /\ workers = <<>>
  /\ FOff
  /\ peer_keys = {}
  /\ peer_wakeups = 0

\* the peer appends a change of bucket shard k to its datalog shard
RemoteLogAppend(k) ==
  /\ k \in peer_keys
  /\ Len(datalog) < MaxLog
  /\ datalog' = Append(datalog, k)
  /\ UNCHANGED <<wakeups, shard_obj, sh_pc, sync_marker, modified_shards,
                 current_modified, modified_iter, datalog_marker, log_entries,
                 log_iter, marker_tracker, mt_sync_marker, data_track, workers>>
  /\ UNCHANGED <<fvars, skeys, tvars, bvars, zvars>>

\* a notification that leaves a shard sleeping in its idle wait
Wakeup_NoCancel(keys) ==
  /\ keys \subseteq peer_keys
  /\ wakeups < peer_wakeups
  /\ wakeups' = wakeups + 1
  /\ modified_shards' = modified_shards \cup keys
  /\ UNCHANGED <<datalog, shard_obj, sync_marker, current_modified, modified_iter,
                 datalog_marker, log_entries, log_iter, marker_tracker,
                 mt_sync_marker, data_track, workers, sh_pc>>
  /\ UNCHANGED <<fvars, skeys, tvars, bvars, zvars>>

\* RGWDataSyncCR::wakeup(shard_id, keys) for the registered shard:
\* append_modified_shards(keys), then wake the shard out of its idle wait
Wakeup(keys) ==
  /\ keys \subseteq peer_keys
  /\ wakeups < peer_wakeups
  /\ wakeups' = wakeups + 1
  /\ modified_shards' = modified_shards \cup keys
  /\ sh_pc' = IF sh_pc = "inc_wait" THEN "inc_woken" ELSE sh_pc
  /\ UNCHANGED <<datalog, shard_obj, sync_marker, current_modified, modified_iter,
                 datalog_marker, log_entries, log_iter, marker_tracker,
                 mt_sync_marker, data_track, workers>>
  /\ UNCHANGED <<fvars, skeys, tvars, bvars, zvars>>

IncDrain_KeepModified ==
  /\ sh_pc \in {"inc_drain", "inc_woken"}
  /\ current_modified' = modified_shards
  /\ modified_iter' = modified_shards
  /\ sh_pc' = "inc_modified"
  /\ UNCHANGED <<datalog, wakeups, shard_obj, sync_marker, datalog_marker,
                 log_entries, log_iter, marker_tracker, mt_sync_marker,
                 data_track, workers, modified_shards>>
  /\ UNCHANGED <<fvars, skeys, tvars, bvars, zvars>>

\* top of the loop: swap modified_shards into current_modified under inc_lock
IncDrain ==
  /\ sh_pc \in {"inc_drain", "inc_woken"}
  /\ current_modified' = modified_shards
  /\ modified_shards' = {}
  /\ modified_iter' = modified_shards
  /\ sh_pc' = "inc_modified"
  /\ UNCHANGED <<datalog, wakeups, shard_obj, sync_marker, datalog_marker,
                 log_entries, log_iter, marker_tracker, mt_sync_marker,
                 data_track, workers>>
  /\ UNCHANGED <<fvars, skeys, tvars, bvars, zvars>>

IncSpawnModified_WithMarker(k) ==
  /\ sh_pc = "inc_modified"
  /\ k \in modified_iter
  /\ workers' = Append(workers, NewWorker(k, sync_marker.marker))
  /\ modified_iter' = modified_iter \ {k}
  /\ UNCHANGED <<datalog, wakeups, shard_obj, sh_pc, sync_marker, modified_shards,
                 current_modified, datalog_marker, log_entries, log_iter,
                 marker_tracker, mt_sync_marker, data_track>>
  /\ UNCHANGED <<fvars, skeys, tvars, bvars, zvars>>

\* out of band updates: spawn a worker with an empty entry marker per key
IncSpawnModified(k) ==
  /\ sh_pc = "inc_modified"
  /\ k \in modified_iter
  /\ workers' = Append(workers, NewWorker(k, 0))
  /\ modified_iter' = modified_iter \ {k}
  /\ UNCHANGED <<datalog, wakeups, shard_obj, sh_pc, sync_marker, modified_shards,
                 current_modified, datalog_marker, log_entries, log_iter,
                 marker_tracker, mt_sync_marker, data_track>>
  /\ UNCHANGED <<fvars, skeys, tvars, bvars, zvars>>

\* where the loop goes once datalog_marker is known and the page, if any, is done
AfterEntries_NoWait(dm, sm) == "inc_drain"

AfterEntries(dm, sm) == IF dm = sm.marker THEN "inc_wait" ELSE "inc_drain"

\* RGWReadRemoteDataLogShardInfoCR returns rc: an error ends the coroutine,
\* else datalog_marker is the shard's head marker
IncReadInfo(rc) ==
  /\ sh_pc = "inc_modified"
  /\ modified_iter = {}
  /\ IF rc < 0
     THEN /\ sh_pc' = "error"
          /\ UNCHANGED datalog_marker
     ELSE /\ datalog_marker' = Len(datalog)
          /\ sh_pc' = IF datalog_marker' > sync_marker.marker
                      THEN "inc_log" ELSE AfterEntries(datalog_marker', sync_marker)
  /\ UNCHANGED <<datalog, wakeups, shard_obj, sync_marker, modified_shards,
                 current_modified, modified_iter, log_entries, log_iter,
                 marker_tracker, mt_sync_marker, data_track, workers>>
  /\ UNCHANGED <<fvars, skeys, tvars, bvars, zvars>>

\* the peer's answer to a read of the shard after marker: a page of entries
\* and the marker of the last one
RemoteDataLogPage(log, marker) ==
  LET last == IF Len(log) < marker + LogPage THEN Len(log) ELSE marker + LogPage
  IN [entries |-> [j \in 1..(last - marker) |->
                     [log_id |-> marker + j, key |-> log[marker + j]]],
      marker  |-> last]

\* RGWReadRemoteDataLogShardCR returns rc: on success entries and *pmarker are
\* replaced by the response, on error both keep what they held; the loop over
\* log_entries runs in either case
IncReadLog(rc) ==
  /\ sh_pc = "inc_log"
  /\ IF rc < 0
     THEN UNCHANGED <<log_entries, sync_marker>>
     ELSE LET response == RemoteDataLogPage(datalog, sync_marker.marker)
          IN /\ log_entries' = response.entries
             /\ sync_marker' = [sync_marker EXCEPT !.marker = response.marker]
  /\ log_iter' = 1
  /\ sh_pc' = "inc_entries"
  /\ UNCHANGED <<datalog, wakeups, shard_obj, modified_shards, current_modified,
                 modified_iter, datalog_marker, marker_tracker, mt_sync_marker,
                 data_track, workers>>
  /\ UNCHANGED <<fvars, skeys, tvars, bvars, zvars>>

\* the dedup check of one log entry, as the loop calls it
IncIndexEntry(dt, entry) == IndexKeyToMarker(dt, LogIdStr(entry.log_id), entry.key)

\* one iteration of the loop over log_entries
IncEntry ==
  /\ sh_pc = "inc_entries"
  /\ log_iter <= Len(log_entries)
  /\ LET entry == log_entries[log_iter]
         r == IncIndexEntry(data_track, entry)
     IN /\ data_track' = r.dt
        /\ IF r.ok
           THEN /\ marker_tracker' = TrackStart(marker_tracker, entry.log_id, 0)
                /\ workers' = Append(workers, NewWorker(entry.key, entry.log_id))
           ELSE UNCHANGED <<marker_tracker, workers>>
  /\ log_iter' = log_iter + 1
  /\ UNCHANGED <<datalog, wakeups, shard_obj, sh_pc, sync_marker, modified_shards,
                 current_modified, modified_iter, datalog_marker, log_entries,
                 mt_sync_marker>>
  /\ UNCHANGED <<fvars, skeys, tvars, bvars, zvars>>

\* the page is exhausted: idle for INCREMENTAL_INTERVAL when caught up
IncEntriesEnd ==
  /\ sh_pc = "inc_entries"
  /\ log_iter > Len(log_entries)
  /\ sh_pc' = AfterEntries(datalog_marker, sync_marker)
  /\ UNCHANGED <<datalog, wakeups, shard_obj, sync_marker, modified_shards,
                 current_modified, modified_iter, datalog_marker, log_entries,
                 log_iter, marker_tracker, mt_sync_marker, data_track, workers>>
  /\ UNCHANGED <<fvars, skeys, tvars, bvars, zvars>>

\* the idle wait expires
IncWaitDone ==
  /\ sh_pc = "inc_wait"
  /\ sh_pc' = "inc_drain"
  /\ UNCHANGED <<datalog, wakeups, shard_obj, sync_marker, modified_shards,
                 current_modified, modified_iter, datalog_marker, log_entries,
                 log_iter, marker_tracker, mt_sync_marker, data_track, workers>>
  /\ UNCHANGED <<fvars, skeys, tvars, bvars, zvars>>

\* the end of RGWDataSyncSingleEntryCR::operate, from its sync_status and retcode
WorkerEnd(w) ==
  LET status == IF w.sync_status = 0 THEN w.retcode ELSE w.sync_status
  IN [w EXCEPT !.sync_status = status,
               !.pc = IF status < 0 THEN "error" ELSE "done"]

\* a worker's first step: parse raw_key, which on failure ends the worker with
\* -EIO; else reset_need_retry(raw_key) and call the bucket-shard sync
WorkerStart(i) ==
  /\ i \in DOMAIN workers
  /\ workers[i].pc = "start"
  /\ IF ParseBucketShard(workers[i].raw_key).ret < 0
     THEN /\ workers' = [workers EXCEPT ![i].retcode = EIO, ![i].pc = "error"]
          /\ UNCHANGED data_track
     ELSE /\ data_track' = ResetNeedRetry(data_track, workers[i].raw_key)
          /\ workers' = [workers EXCEPT ![i].pc = "sync"]
  /\ UNCHANGED <<datalog, wakeups, shard_obj, sh_pc, sync_marker, modified_shards,
                 current_modified, modified_iter, datalog_marker, log_entries,
                 log_iter, marker_tracker, mt_sync_marker>>
  /\ UNCHANGED <<fvars, skeys, tvars, bvars, zvars>>

\* the bucket-shard sync called by worker i returns rc: run it again while
\* need_retry, else finish the entry marker when there is one
WorkerSyncDone(i, rc) ==
  /\ i \in DOMAIN workers
  /\ workers[i].pc = "sync"
  /\ LET w == workers[i] IN
     IF NeedRetry(data_track, w.raw_key)
     THEN /\ data_track' = ResetNeedRetry(data_track, w.raw_key)
          /\ workers' = [workers EXCEPT ![i].retcode = rc]
          /\ UNCHANGED <<marker_tracker, mt_sync_marker, shard_obj>>
     ELSE IF w.entry_marker = 0
     THEN /\ workers' = [workers EXCEPT ![i] =
                           WorkerEnd([w EXCEPT !.sync_status = rc, !.retcode = rc])]
          /\ UNCHANGED <<data_track, marker_tracker, mt_sync_marker, shard_obj>>
     ELSE LET r == TrackFinish(marker_tracker, w.entry_marker) IN
          /\ marker_tracker' = r.t
          /\ data_track' = HandleFinish(data_track, LogIdStr(w.entry_marker))
          /\ IF r.store
             THEN /\ mt_sync_marker' = DataStoreMarker(mt_sync_marker, r.marker, r.index_pos)
                  /\ shard_obj' = mt_sync_marker'
                  /\ workers' = [workers EXCEPT ![i] =
                                   [w EXCEPT !.sync_status = rc, !.retcode = rc,
                                             !.pc = "finish"]]
             ELSE /\ UNCHANGED <<mt_sync_marker, shard_obj>>
                  /\ workers' = [workers EXCEPT ![i] =
                                   WorkerEnd([w EXCEPT !.sync_status = rc, !.retcode = rc])]
  /\ UNCHANGED <<datalog, wakeups, sh_pc, sync_marker, modified_shards,
                 current_modified, modified_iter, datalog_marker, log_entries,
                 log_iter>>
  /\ UNCHANGED <<fvars, skeys, tvars, bvars, zvars>>

\* the marker write issued by finish completes
WorkerFinishDone(i) ==
  /\ i \in DOMAIN workers
  /\ workers[i].pc = "finish"
  /\ workers' = [workers EXCEPT ![i] = WorkerEnd([workers[i] EXCEPT !.retcode = 0])]
  /\ UNCHANGED <<datalog, wakeups, shard_obj, sh_pc, sync_marker, modified_shards,
                 current_modified, modified_iter, datalog_marker, log_entries,
                 log_iter, marker_tracker, mt_sync_marker, data_track>>
  /\ UNCHANGED <<fvars, skeys, tvars, bvars, zvars>>

(***************************************************************************)
(* RGWDataSyncShardCR::full_sync: page through the shard's full-sync index, *)
(* spawn one RGWDataSyncSingleEntryCR per key, drain them and move the     *)
(* marker to IncrementalSync.  An index key is tracked by its rank in      *)
(* omap_index, which is the order of the keys.                             *)
(***************************************************************************)
\* the shard coroutine on entry to full_sync for a marker as init and the
\* index build left it: the tracker is created from sync_marker and
\* total_entries starts from sync_marker.pos
SFullInit ==
  /\ omap_index \in {<<>>, <<"b1:A:0">>, <<"b1:A:0", "b2:B:0">>}
  /\ datalog \in {<<>>, <<"b1:A:0">>}
  /\ wakeups = 0
  /\ \E nsm \in 0..Len(datalog) :
       /\ shard_obj = [NewDataSyncMarker EXCEPT !.next_step_marker = nsm,
                                                !.total_entries = Len(omap_index)]
       /\ sync_marker = shard_obj
       /\ mt_sync_marker = shard_obj
  /\ sh_pc = "full_list"
  /\ modified_shards = {}
  /\ current_modified = {}
  /\ modified_iter = {}
  /\ datalog_marker = 0
  /\ log_entries = <<>>
  /\ log_iter = 1
  /\ marker_tracker = NewTracker(DATA_SYNC_UPDATE_MARKER_WINDOW)
  /\ data_track = NewDataTrack
  /\ workers = <<>>
  /\ entries = <<>>
  /\ entries_iter = 1
  /\ total_entries = 0
  /\ full_runs = 1
  /\ peer_keys = {"b1:A:0", "b2:B:0"}
  /\ peer_wakeups = 0

OmapKeysPage_FromNext(index, marker) ==
  LET first == marker + 2
      last == IF Len(index) < marker + OmapPage THEN Len(index) ELSE marker + OmapPage
  IN [j \in 1..(last - first + 1) |-> first + j - 1]

\* RGWRadosGetOmapKeysCR: up to OmapPage keys of the index after marker
OmapKeysPage(index, marker) ==
  LET last == IF Len(index) < marker + OmapPage THEN Len(index) ELSE marker + OmapPage
  IN [j \in 1..(last - marker) |-> marker + j]

\* full sync: the read of the next index page returns rc
FullShardList(rc) ==
  /\ sh_pc = "full_list"
  /\ IF rc < 0
     THEN /\ sh_pc' = "error"
          /\ UNCHANGED <<entries, entries_iter>>
     ELSE /\ entries' = OmapKeysPage(omap_index, sync_marker.marker)
          /\ entries_iter' = 1
          /\ sh_pc' = "full_entries"
  /\ UNCHANGED <<datalog, wakeups, shard_obj, sync_marker, modified_shards,
                 current_modified, modified_iter, datalog_marker, log_entries,
                 log_iter, marker_tracker, mt_sync_marker, data_track, workers,
                 omap_index, total_entries, full_runs>>
  /\ UNCHANGED <<skeys, tvars, bvars, zvars>>

\* full sync: one iteration of the loop over the page: start the key with
\* index_pos total_entries, spawn its worker with the key as entry marker
FullShardEntry ==
  /\ sh_pc = "full_entries"
  /\ entries_iter <= Len(entries)
  /\ LET m == entries[entries_iter] IN
       /\ total_entries' = total_entries + 1
       /\ marker_tracker' = TrackStart(marker_tracker, m, total_entries')
       /\ workers' = Append(workers, NewWorker(omap_index[m], m))
       /\ sync_marker' = [sync_marker EXCEPT !.marker = m]
  /\ entries_iter' = entries_iter + 1
  /\ UNCHANGED <<datalog, wakeups, shard_obj, sh_pc, modified_shards,
                 current_modified, modified_iter, datalog_marker, log_entries,
                 log_iter, mt_sync_marker, data_track, omap_index, entries,
                 full_runs>>
  /\ UNCHANGED <<skeys, tvars, bvars, zvars>>

\* full sync: the page is exhausted: read on after a full page, else drain
FullShardEntriesEnd ==
  /\ sh_pc = "full_entries"
  /\ entries_iter > Len(entries)
  /\ sh_pc' = IF Len(entries) = OmapPage THEN "full_list" ELSE "full_drain"
  /\ UNCHANGED <<datalog, wakeups, shard_obj, sync_marker, modified_shards,
                 current_modified, modified_iter, datalog_marker, log_entries,
                 log_iter, marker_tracker, mt_sync_marker, data_track, workers>>
  /\ UNCHANGED <<fvars, skeys, tvars, bvars, zvars>>

\* whether every worker spawned so far has completed, or went with an
\* earlier shard coroutine
AllWorkersEnded(ws) == \A i \in DOMAIN ws : ws[i].pc \in {"done", "error", "lost"}

FullSyncDoneMarker_KeepMarker(sm) == [sm EXCEPT !.state = "IncrementalSync"]

\* the marker full sync writes when it is done
FullSyncDoneMarker(sm) ==
  [sm EXCEPT !.state = "IncrementalSync", !.marker = sm.next_step_marker,
             !.next_step_marker = 0]

\* full sync: drain_all has returned; write the marker, which returns rc
FullShardDone(rc) ==
  /\ sh_pc = "full_drain"
  /\ AllWorkersEnded(workers)
  /\ sync_marker' = FullSyncDoneMarker(sync_marker)
  /\ IF rc < 0
     THEN /\ sh_pc' = "error"
          /\ UNCHANGED shard_obj
     ELSE /\ sh_pc' = "inc_begin"
          /\ shard_obj' = sync_marker'
  /\ UNCHANGED <<datalog, wakeups, modified_shards, current_modified,
                 modified_iter, datalog_marker, log_entries, log_iter,
                 marker_tracker, mt_sync_marker, data_track, workers>>
  /\ UNCHANGED <<fvars, skeys, tvars, bvars, zvars>>

\* operate dispatches on the new state: incremental_sync creates its tracker
\* from sync_marker
IncBegin ==
  /\ sh_pc = "inc_begin"
  /\ marker_tracker' = NewTracker(DATA_SYNC_UPDATE_MARKER_WINDOW)
  /\ mt_sync_marker' = sync_marker
  /\ data_track' = NewDataTrack
  /\ sh_pc' = "inc_drain"
  /\ UNCHANGED <<datalog, wakeups, shard_obj, sync_marker, modified_shards,
                 current_modified, modified_iter, datalog_marker, log_entries,
                 log_iter, workers>>
  /\ UNCHANGED <<fvars, skeys, tvars, bvars, zvars>>

\* the sync is interrupted in its full phase and started again: RGWDataSyncCR
\* creates the shard coroutine from the persisted marker, which enters
\* full_sync with a tracker made from that marker and total_entries from its
\* pos; the workers of the earlier coroutine that had not ended are gone
FullResume ==
  /\ sh_pc \in {"full_list", "full_entries", "full_drain", "error"}
  /\ shard_obj.state = "FullSync"
  /\ full_runs < MaxFullRuns
  /\ full_runs' = full_runs + 1
  /\ sync_marker' = shard_obj
  /\ mt_sync_marker' = shard_obj
  /\ marker_tracker' = NewTracker(DATA_SYNC_UPDATE_MARKER_WINDOW)
  /\ data_track' = NewDataTrack
  /\ total_entries' = shard_obj.pos
  /\ entries' = <<>>
  /\ entries_iter' = 1
  /\ workers' = [i \in DOMAIN workers |->
                   IF workers[i].pc \in {"done", "error"} THEN workers[i]
                   ELSE [workers[i] EXCEPT !.pc = "lost"]]
  /\ sh_pc' = "full_list"
  /\ UNCHANGED <<datalog, wakeups, shard_obj, modified_shards, current_modified,
                 modified_iter, datalog_marker, log_entries, log_iter, omap_index>>
  /\ UNCHANGED <<skeys, tvars, bvars, zvars>>

\* the most workers a run can spawn
MaxWorkers == MaxLog + (MaxWakeups + 1) * Cardinality(BucketShardKeys)
               + Cardinality(BucketShardKeys)

\* the shard coroutine and its workers when no notification arrives
SLoopNext ==
  \/ \E k \in BucketShardKeys : RemoteLogAppend(k)
  \/ IncDrain
  \/ \E rc \in {0, EIO} : IncReadInfo(rc)
  \/ \E rc \in {0, EIO} : IncReadLog(rc)
  \/ IncEntry
  \/ IncEntriesEnd
  \/ IncWaitDone
  \/ \E i \in 1..MaxWorkers : WorkerStart(i)
  \/ \E i \in 1..MaxWorkers, rc \in {0, EIO} : WorkerSyncDone(i, rc)
  \/ \E i \in 1..MaxWorkers : WorkerFinishDone(i)

SNext ==
  \/ SLoopNext
  \/ \E keys \in SUBSET BucketShardKeys \ {{}} : Wakeup(keys)
  \/ \E k \in BucketShardKeys : IncSpawnModified(k)

\* the shard coroutine from the start of its full phase
FNext ==
  \/ \E rc \in {0, EIO} : FullShardList(rc)
  \/ FullShardEntry
  \/ FullShardEntriesEnd
  \/ \E rc \in {0, EIO} : FullShardDone(rc)
  \/ IncBegin
  \/ SLoopNext

\* the shard coroutine when its full phase can be interrupted and resumed
FResumeNext ==
  \/ FNext
  \/ FullResume

(***************************************************************************)
(* Bucket shard layer: RGWRunBucketSyncCoroutine and the coroutines it     *)
(* calls (RGWReadBucketSyncStatusCoroutine,                                *)
(* RGWInitBucketShardSyncStatusCoroutine, RGWBucketShardFullSyncCR,        *)
(* RGWBucketShardIncrementalSyncCR) with their RGWBucketSyncSingleEntryCR  *)
(* children.  Several runs on the same bucket shard can be in flight: the  *)
(* datalog shard layer starts one per single-entry worker.                 *)
(***************************************************************************)
Runs == {"r1", "r2"}

\* VersionId values of the peer's listing and instance values of its index log
Instances == {"", "null", "v1"}

\* RGWModifyOp values the index log carries
BilogOps == {"Add", "LinkOLH", "Del"}

\* bucket_list_entry::versioned_epoch as the peer's listing gives it for key
PeerEpoch(key) == key

\* rgw_bi_log_entry::ver as the peer's index log gives it for entry id: odd
\* entries carry a negative pool, even entries a pool id
PeerVer(id) == [pool |-> IF id % 2 = 1 THEN 0 - 1 ELSE 1, epoch |-> id]

\* rgw_bucket_shard_sync_info as default-constructed, which is also what a
\* status object without attributes, or no object at all, decodes to
NewBucketStatus ==
  [state |-> "Init", full_marker |-> NewFullMarker, inc_marker |-> NewIncMarker]

\* the members of one run: of RGWRunBucketSyncCoroutine (sync_status), of the
\* init coroutine (info_max_marker, -1 before the fetch), of the full and
\* incremental coroutines (the rest), the children spawned since the last
\* drain and which of them have been collected.  Three fields record history:
\* pass counts the runs made one after the other, full_failed holds the keys
\* whose transfer failed in a Full phase, read_state is the state the run's
\* read of the status object returned
NewRun ==
  [pc |-> "idle", sync_status |-> NewBucketStatus, info_max_marker |-> 0 - 1,
   phase |-> "none", list_marker |-> 0, total_entries |-> 0,
   list_result |-> <<>>, is_truncated |-> FALSE, entries_iter |-> 1,
   inc_marker |-> NewIncMarker,
   mt |-> NewTracker(BUCKET_SYNC_UPDATE_MARKER_WINDOW),
   tracker_marker |-> NewIncMarker, children |-> <<>>, collected |-> {},
   pass |-> 1, full_failed |-> {}, read_state |-> "none"]

\* RGWBucketSyncSingleEntryCR as constructed; called is the transfer primitive
\* it has invoked ("none", "fetch" or "remove")
NewChild(entry_marker, op, instance, versioned_epoch) ==
  [entry_marker |-> entry_marker, op |-> op, instance |-> instance,
   versioned_epoch |-> versioned_epoch,
   pc |-> "start", called |-> "none", sync_status |-> 0, retcode |-> 0]

\* a run that is never started
NoRun == [NewRun EXCEPT !.pc = "off"]

\* one run on a bucket shard of a versioned bucket whose transfers can fail
BInit ==
  /\ bilog_len = 0
  /\ bucket_obj = NewBucketStatus
  /\ bucket_exists = FALSE
  /\ bucket_locked = FALSE
  /\ run = [r \in Runs |-> IF r = "r1" THEN NewRun ELSE NoRun]
  /\ peer_instances = Instances
  /\ peer_ops = BilogOps
  /\ transfer_rcs = {0, EIO}
  /\ init_rcs = {0, EIO}

\* two runs on a bucket shard of an unversioned bucket that only sees object
\* writes, and whose transfers succeed
BPairInit ==
  /\ bilog_len = 0
  /\ bucket_obj = NewBucketStatus
  /\ bucket_exists = FALSE
  /\ bucket_locked = FALSE
  /\ run = [r \in Runs |-> NewRun]
  /\ peer_instances = {""}
  /\ peer_ops = {"Add"}
  /\ transfer_rcs = {0}
  /\ init_rcs = {0}

\* the bucket shard layer at rest
BOff ==
  /\ bilog_len = 0
  /\ bucket_obj = NewBucketStatus
  /\ bucket_exists = FALSE
  /\ bucket_locked = FALSE
  /\ run = [r \in Runs |-> NoRun]
  /\ peer_instances = {}
  /\ peer_ops = {}
  /\ transfer_rcs = {}
  /\ init_rcs = {}

\* the peer logs one more object change of the bucket shard
BilogAppend ==
  /\ bilog_len < MaxBilog
  /\ bilog_len' = bilog_len + 1
  /\ UNCHANGED <<bucket_obj, bucket_locked, run>>
  /\ UNCHANGED <<bucket_exists, tvars, svars, envvars, zvars>>

\* a single-entry worker of the datalog shard calls the bucket-shard sync
RunStart(r) ==
  /\ run[r].pc = "idle"
  /\ run' = [run EXCEPT ![r].pc = "read_status"]
  /\ UNCHANGED <<bilog_len, bucket_obj, bucket_locked>>
  /\ UNCHANGED <<bucket_exists, tvars, svars, envvars, zvars>>

\* a later single-entry worker of the datalog shard calls the bucket-shard sync
\* on the same bucket shard, once the earlier call has returned
RunAgain(r) ==
  /\ run[r].pc = "done"
  /\ run[r].pass < MaxPasses
  /\ run' = [run EXCEPT ![r] = [NewRun EXCEPT !.pc = "read_status",
                                              !.pass = run[r].pass + 1,
                                              !.full_failed = run[r].full_failed]]
  /\ UNCHANGED <<bilog_len, bucket_obj, bucket_locked>>
  /\ UNCHANGED <<bucket_exists, tvars, svars, envvars, zvars>>

\* entry to RGWBucketShardFullSyncCR::operate, up to its first listing
BeginFull(rec) ==
  [rec EXCEPT !.pc = "full_list", !.phase = "full",
              !.list_marker = rec.sync_status.full_marker.position,
              !.mt = NewTracker(BUCKET_SYNC_UPDATE_MARKER_WINDOW),
              !.tracker_marker = rec.sync_status.full_marker,
              !.total_entries = rec.sync_status.full_marker.count,
              !.list_result = <<>>, !.entries_iter = 1, !.children = <<>>,
              !.collected = {}]

BeginInc_FromStart(rec) ==
  [rec EXCEPT !.pc = "inc_list", !.phase = "inc",
              !.inc_marker = NewIncMarker,
              !.mt = NewTracker(BUCKET_SYNC_UPDATE_MARKER_WINDOW),
              !.tracker_marker = rec.sync_status.inc_marker,
              !.list_result = <<>>, !.entries_iter = 1, !.children = <<>>,
              !.collected = {}]

\* entry to RGWBucketShardIncrementalSyncCR::operate, up to its first listing
BeginInc(rec) ==
  [rec EXCEPT !.pc = "inc_list", !.phase = "inc",
              !.inc_marker = rec.sync_status.inc_marker,
              !.mt = NewTracker(BUCKET_SYNC_UPDATE_MARKER_WINDOW),
              !.tracker_marker = rec.sync_status.inc_marker,
              !.list_result = <<>>, !.entries_iter = 1, !.children = <<>>,
              !.collected = {}]

\* the return code of RGWSimpleRadosReadAttrsCR on the status object
ReadAttrsRet(exists) == IF exists THEN 0 ELSE ENOENT

ReadBucketSyncStatus_AbsentFails(retcode, attrs) ==
  IF retcode < 0 THEN [ret |-> EIO, status |-> NewBucketStatus]
  ELSE [ret |-> 0, status |-> attrs]

\* RGWReadBucketSyncStatusCoroutine::operate once the attrs read has returned
\* retcode: how the coroutine returns and what it leaves in *status, which
\* the caller constructed by default
ReadBucketSyncStatus(retcode, attrs) ==
  IF retcode = ENOENT THEN [ret |-> 0, status |-> NewBucketStatus]
  ELSE IF retcode < 0 THEN [ret |-> retcode, status |-> NewBucketStatus]
  ELSE [ret |-> 0, status |-> attrs]

\* RGWReadBucketSyncStatusCoroutine, then the dispatch on sync_status.state;
\* a read that failed with anything but ENOENT ends the run in error
RunReadStatus(r) ==
  /\ run[r].pc = "read_status"
  /\ LET rd == ReadBucketSyncStatus(ReadAttrsRet(bucket_exists), bucket_obj)
         rec == [run[r] EXCEPT !.sync_status = rd.status,
                               !.read_state = rd.status.state]
     IN run' = [run EXCEPT ![r] =
                  IF rd.ret < 0 /\ rd.ret # ENOENT
                  THEN [run[r] EXCEPT !.pc = "error"]
                  ELSE IF rec.sync_status.state = "Init"
                  THEN [rec EXCEPT !.pc = "init_lock"]
                  ELSE IF rec.sync_status.state = "FullSync"
                  THEN BeginFull(rec)
                  ELSE BeginInc(rec)]
  /\ UNCHANGED <<bilog_len, bucket_obj, bucket_locked>>
  /\ UNCHANGED <<bucket_exists, tvars, svars, envvars, zvars>>

\* init: take sync_lock on the status object
InitLock(r, rc) ==
  /\ run[r].pc = "init_lock"
  /\ bucket_locked' = IF rc < 0 THEN bucket_locked ELSE TRUE
  /\ run' = [run EXCEPT ![r].pc = IF rc < 0 THEN "error" ELSE "init_write"]
  /\ UNCHANGED <<bilog_len, bucket_obj>>
  /\ UNCHANGED <<bucket_exists, tvars, svars, envvars, zvars>>

\* init: write the default status, which recreates the object
InitWrite(r) ==
  /\ run[r].pc = "init_write"
  /\ bucket_obj' = NewBucketStatus
  /\ bucket_exists' = TRUE
  /\ bucket_locked' = FALSE
  /\ run' = [run EXCEPT ![r].pc = "init_relock"]
  /\ UNCHANGED <<bilog_len>>
  /\ UNCHANGED <<tvars, svars, envvars, zvars>>

\* init: take the lock again; a failure ends init in error
InitRelock(r, rc) ==
  /\ run[r].pc = "init_relock"
  /\ bucket_locked' = IF rc < 0 THEN bucket_locked ELSE TRUE
  /\ run' = [run EXCEPT ![r].pc = IF rc < 0 THEN "error" ELSE "init_info"]
  /\ UNCHANGED <<bilog_len, bucket_obj>>
  /\ UNCHANGED <<bucket_exists, tvars, svars, envvars, zvars>>

\* init: RGWReadRemoteBucketIndexLogInfoCR reads the peer's log head and
\* returns rc; -ENOENT leaves info as constructed, another error ends init
InitInfo(r, rc) ==
  /\ run[r].pc = "init_info"
  /\ run' = [run EXCEPT ![r] =
               IF rc < 0 /\ rc # ENOENT THEN [@ EXCEPT !.pc = "error"]
               ELSE [@ EXCEPT !.info_max_marker = IF rc = 0 THEN bilog_len ELSE 0,
                              !.pc = "init_attrs"]]
  /\ UNCHANGED <<bilog_len, bucket_obj, bucket_locked>>
  /\ UNCHANGED <<bucket_exists, tvars, svars, envvars, zvars>>

\* the status the init coroutine writes with encode_all_attrs
InitStatus(max_marker) ==
  [NewBucketStatus EXCEPT !.state = "FullSync", !.inc_marker.position = max_marker]

\* init: write state, full_marker and inc_marker; the result of the write is
\* not looked at
InitAttrs(r, rc) ==
  /\ run[r].pc = "init_attrs"
  /\ bucket_obj' = IF rc < 0 THEN bucket_obj ELSE InitStatus(run[r].info_max_marker)
  /\ run' = [run EXCEPT ![r].pc = "init_unlock"]
  /\ UNCHANGED <<bilog_len, bucket_locked>>
  /\ UNCHANGED <<bucket_exists, tvars, svars, envvars, zvars>>

\* what RGWRunBucketSyncCoroutine holds in sync_status once init has returned
AfterInit(rec) == [rec EXCEPT !.sync_status.state = "FullSync"]

\* init: unlock; the run goes on to full sync
InitUnlock(r) ==
  /\ run[r].pc = "init_unlock"
  /\ bucket_locked' = FALSE
  /\ run' = [run EXCEPT ![r] = BeginFull(AfterInit(run[r]))]
  /\ UNCHANGED <<bilog_len, bucket_obj>>
  /\ UNCHANGED <<bucket_exists, tvars, svars, envvars, zvars>>

\* the last rank of a page that starts after marker in a source of size entries
PageEnd(marker, size) ==
  IF size < marker + ListPage THEN size ELSE marker + ListPage

\* full sync: RGWListBucketShardCR returns the page after list_marker; insts
\* are the VersionId values of its entries
FullList(r, insts) ==
  /\ run[r].pc = "full_list"
  /\ LET marker == run[r].list_marker
         last == PageEnd(marker, MaxObjs)
     IN /\ DOMAIN insts = 1..(last - marker)
        /\ run' = [run EXCEPT
                     ![r].list_result = [j \in 1..(last - marker) |->
                                           [key |-> marker + j, instance |-> insts[j],
                                            versioned_epoch |-> PeerEpoch(marker + j)]],
                     ![r].is_truncated = last < MaxObjs,
                     ![r].entries_iter = 1,
                     ![r].pc = "full_entries"]
  /\ UNCHANGED <<bilog_len, bucket_obj, bucket_locked>>
  /\ UNCHANGED <<bucket_exists, tvars, svars, envvars, zvars>>

FullSyncOp_AlwaysAdd(instance) == "Add"

\* the op full sync gives a listing entry
FullSyncOp(instance) ==
  IF instance = "" \/ instance = "null" THEN "Add" ELSE "LinkOLH"

\* num_spawned(): the children spawned and not yet collected
NumSpawned(rec) == Len(rec.children) - Cardinality(rec.collected)

\* where the entry loop goes once a child is spawned: into the wait loop
\* while more than the window are spawned
AfterSpawn(rec) ==
  IF NumSpawned(rec) > SpawnWindow
  THEN [rec EXCEPT !.pc = IF rec.phase = "full" THEN "full_window" ELSE "inc_window"]
  ELSE [rec EXCEPT !.pc = IF rec.phase = "full" THEN "full_entries" ELSE "inc_entries"]

\* full sync: start the marker of the next listing entry and spawn its worker
FullEntry(r) ==
  /\ run[r].pc = "full_entries"
  /\ run[r].entries_iter <= Len(run[r].list_result)
  /\ LET rec == run[r]
         entry == rec.list_result[rec.entries_iter]
         total == rec.total_entries + 1
     IN run' = [run EXCEPT ![r] = AfterSpawn(
                  [rec EXCEPT !.total_entries = total,
                              !.mt = TrackStart(rec.mt, entry.key, total),
                              !.list_marker = entry.key,
                              !.children = Append(rec.children,
                                  NewChild(entry.key, FullSyncOp(entry.instance),
                                           entry.instance, entry.versioned_epoch)),
                              !.entries_iter = rec.entries_iter + 1])]
  /\ UNCHANGED <<bilog_len, bucket_obj, bucket_locked>>
  /\ UNCHANGED <<bucket_exists, tvars, svars, envvars, zvars>>

\* full sync: the page is done; list again while the listing is truncated
FullEntriesEnd(r) ==
  /\ run[r].pc = "full_entries"
  /\ run[r].entries_iter > Len(run[r].list_result)
  /\ run' = [run EXCEPT ![r].pc = IF run[r].is_truncated THEN "full_list"
                                  ELSE "full_drain"]
  /\ UNCHANGED <<bilog_len, bucket_obj, bucket_locked>>
  /\ UNCHANGED <<bucket_exists, tvars, svars, envvars, zvars>>

Ended(child) == child.pc \in {"done", "error"}

AllEnded(children) == \A c \in DOMAIN children : Ended(children[c])

SpawnWindowWait_AbortOnError(r) ==
  /\ run[r].pc \in {"full_window", "inc_window"}
  /\ \E c \in DOMAIN run[r].children :
       Ended(run[r].children[c]) /\ c \notin run[r].collected
  /\ LET rec == run[r]
         col == [rec EXCEPT !.collected = {c \in DOMAIN rec.children :
                                             Ended(rec.children[c])}]
     IN run' = [run EXCEPT ![r] =
                  IF \E c \in col.collected : rec.children[c].pc = "error"
                  THEN [col EXCEPT !.pc = IF rec.phase = "full" THEN "full_drain"
                                          ELSE "inc_drain"]
                  ELSE AfterSpawn(col)]
  /\ UNCHANGED <<bilog_len, bucket_obj, bucket_locked>>
  /\ UNCHANGED <<bucket_exists, tvars, svars, envvars, zvars>>

\* the wait loop of both phases: wait_for_child returns once a child has
\* completed, collect harvests every completed child
SpawnWindowWait(r) ==
  /\ run[r].pc \in {"full_window", "inc_window"}
  /\ \E c \in DOMAIN run[r].children :
       Ended(run[r].children[c]) /\ c \notin run[r].collected
  /\ LET rec == run[r]
     IN run' = [run EXCEPT ![r] = AfterSpawn(
                  [rec EXCEPT !.collected = {c \in DOMAIN rec.children :
                                               Ended(rec.children[c])}])]
  /\ UNCHANGED <<bilog_len, bucket_obj, bucket_locked>>
  /\ UNCHANGED <<bucket_exists, tvars, svars, envvars, zvars>>

\* full sync: drain_all has collected every child; write state IncrementalSync
FullDrain(r) ==
  /\ run[r].pc = "full_drain"
  /\ AllEnded(run[r].children)
  /\ bucket_obj' = [bucket_obj EXCEPT !.state = "IncrementalSync"]
  /\ run' = [run EXCEPT ![r].children = <<>>, ![r].collected = {},
                        ![r].pc = "full_setstate"]
  /\ UNCHANGED <<bilog_len, bucket_locked>>
  /\ UNCHANGED <<bucket_exists, tvars, svars, envvars, zvars>>

\* what RGWRunBucketSyncCoroutine holds in sync_status once full sync has returned
AfterFull(rec) == [rec EXCEPT !.sync_status.state = "IncrementalSync"]

\* full sync: the state write is done; the run goes on to incremental sync
FullDone(r) ==
  /\ run[r].pc = "full_setstate"
  /\ run' = [run EXCEPT ![r] = BeginInc(AfterFull(run[r]))]
  /\ UNCHANGED <<bilog_len, bucket_obj, bucket_locked>>
  /\ UNCHANGED <<bucket_exists, tvars, svars, envvars, zvars>>

\* incremental sync: RGWListBucketIndexLogCR returns the page after
\* inc_marker.position; ops and insts are the op and instance of its entries
IncList(r, ops, insts) ==
  /\ run[r].pc = "inc_list"
  /\ LET marker == run[r].inc_marker.position
         last == PageEnd(marker, bilog_len)
     IN /\ DOMAIN ops = 1..(last - marker)
        /\ DOMAIN insts = 1..(last - marker)
        /\ run' = [run EXCEPT
                     ![r].list_result = [j \in 1..(last - marker) |->
                                           [id |-> marker + j, op |-> ops[j],
                                            instance |-> insts[j],
                                            ver |-> PeerVer(marker + j)]],
                     ![r].entries_iter = 1,
                     ![r].pc = "inc_entries"]
  /\ UNCHANGED <<bilog_len, bucket_obj, bucket_locked>>
  /\ UNCHANGED <<bucket_exists, tvars, svars, envvars, zvars>>

VersionedEpoch_Always(ver) == ver.epoch

\* the versioned_epoch the incremental phase hands the worker of an entry
VersionedEpoch(ver) == IF ver.pool < 0 THEN ver.epoch ELSE 0

\* incremental sync: start the marker of the next log entry and spawn its worker
IncLogEntry(r) ==
  /\ run[r].pc = "inc_entries"
  /\ run[r].entries_iter <= Len(run[r].list_result)
  /\ LET rec == run[r]
         entry == rec.list_result[rec.entries_iter]
     IN run' = [run EXCEPT ![r] = AfterSpawn(
                  [rec EXCEPT !.mt = TrackStart(rec.mt, entry.id, 0),
                              !.inc_marker.position = entry.id,
                              !.children = Append(rec.children,
                                  NewChild(entry.id, entry.op, entry.instance,
                                           VersionedEpoch(entry.ver))),
                              !.entries_iter = rec.entries_iter + 1])]
  /\ UNCHANGED <<bilog_len, bucket_obj, bucket_locked>>
  /\ UNCHANGED <<bucket_exists, tvars, svars, envvars, zvars>>

IncLoopAgain_Always(list_result) == TRUE

\* the loop condition of the incremental phase: while (!list_result.empty())
IncLoopAgain(list_result) == list_result # <<>>

\* incremental sync: the page is done; list again unless it was empty
IncLogEntriesEnd(r) ==
  /\ run[r].pc = "inc_entries"
  /\ run[r].entries_iter > Len(run[r].list_result)
  /\ run' = [run EXCEPT ![r].pc = IF IncLoopAgain(run[r].list_result) THEN "inc_list"
                                  ELSE "inc_drain"]
  /\ UNCHANGED <<bilog_len, bucket_obj, bucket_locked>>
  /\ UNCHANGED <<bucket_exists, tvars, svars, envvars, zvars>>

\* incremental sync: drain_all has collected every child; the run is done
IncDrainAll(r) ==
  /\ run[r].pc = "inc_drain"
  /\ AllEnded(run[r].children)
  /\ run' = [run EXCEPT ![r].children = <<>>, ![r].collected = {},
                        ![r].pc = "done"]
  /\ UNCHANGED <<bilog_len, bucket_obj, bucket_locked>>
  /\ UNCHANGED <<bucket_exists, tvars, svars, envvars, zvars>>

\* whether an entry carries a version instance
Versioned(instance) == instance # "" /\ instance # "null"

\* the first step of RGWBucketSyncSingleEntryCR::operate: the child as it
\* leaves the step, having called a transfer primitive, skipped, or neither
ChildDispatch(child) ==
  IF child.op = "Add" \/ child.op = "LinkOLH"
  THEN IF child.op = "Add" /\ Versioned(child.instance)
       THEN [child EXCEPT !.pc = "done"]
       ELSE [child EXCEPT !.pc = "transfer", !.called = "fetch"]
  ELSE IF child.op = "Del"
  THEN [child EXCEPT !.pc = "transfer", !.called = "remove"]
  ELSE [child EXCEPT !.pc = "transfer"]

ChildOperate(r, c) ==
  /\ c \in DOMAIN run[r].children
  /\ run[r].children[c].pc = "start"
  /\ run' = [run EXCEPT ![r].children[c] = ChildDispatch(run[r].children[c])]
  /\ UNCHANGED <<bilog_len, bucket_obj, bucket_locked>>
  /\ UNCHANGED <<bucket_exists, tvars, svars, envvars, zvars>>

\* the child's sync_status once the transfer has returned rc
ChildStatus(child, rc) ==
  IF rc < 0 /\ rc # ENOENT THEN rc ELSE child.sync_status

\* the end of RGWBucketSyncSingleEntryCR::operate, from sync_status and retcode
ChildEnd(child) ==
  LET status == IF child.sync_status = 0 THEN child.retcode ELSE child.sync_status
  IN [child EXCEPT !.sync_status = status,
                   !.pc = IF status < 0 THEN "error" ELSE "done"]

\* the persisted status after the write a tracker's store_marker issues
WriteMarkerAttr(obj, phase, marker) ==
  IF phase = "full" THEN [obj EXCEPT !.full_marker = marker]
  ELSE [obj EXCEPT !.inc_marker = marker]

\* the transfer of child c returns rc: record a failure, then finish the marker
ChildTransferDone(r, c, rc) ==
  /\ c \in DOMAIN run[r].children
  /\ run[r].children[c].pc = "transfer"
  /\ LET rec == run[r]
         child == [rec.children[c] EXCEPT !.sync_status = ChildStatus(rec.children[c], rc),
                                          !.retcode = rc]
         f == TrackFinish(rec.mt, child.entry_marker)
         kind == IF rec.phase = "full" THEN "bucket_full" ELSE "bucket_inc"
         stored == StoreMarker(kind, rec.tracker_marker, f.marker, f.index_pos)
         failed == IF rec.phase = "full" /\ child.sync_status < 0
                   THEN rec.full_failed \cup {child.entry_marker}
                   ELSE rec.full_failed
     IN IF f.store
        THEN /\ bucket_obj' = WriteMarkerAttr(bucket_obj, rec.phase, stored)
             /\ run' = [run EXCEPT ![r] =
                          [rec EXCEPT !.mt = f.t, !.tracker_marker = stored,
                                      !.full_failed = failed,
                                      !.children[c] = [child EXCEPT !.pc = "finish"]]]
        ELSE /\ UNCHANGED bucket_obj
             /\ run' = [run EXCEPT ![r] =
                          [rec EXCEPT !.mt = f.t, !.full_failed = failed,
                                      !.children[c] = ChildEnd(child)]]
  /\ UNCHANGED <<bilog_len, bucket_locked>>
  /\ UNCHANGED <<bucket_exists, tvars, svars, envvars, zvars>>

\* the marker write issued by finish completes
ChildFinishDone(r, c) ==
  /\ c \in DOMAIN run[r].children
  /\ run[r].children[c].pc = "finish"
  /\ run' = [run EXCEPT ![r].children[c] =
               ChildEnd([run[r].children[c] EXCEPT !.retcode = 0])]
  /\ UNCHANGED <<bilog_len, bucket_obj, bucket_locked>>
  /\ UNCHANGED <<bucket_exists, tvars, svars, envvars, zvars>>

\* the most children a run holds at once
MaxChildren == MaxObjs + MaxBilog

\* the pages a listing can return
Pages(S) == UNION {[1..n -> S] : n \in 0..ListPage}

BNext ==
  \/ BilogAppend
  \/ \E r \in Runs : RunStart(r)
  \/ \E r \in Runs : RunReadStatus(r)
  \/ \E r \in Runs, rc \in init_rcs : InitLock(r, rc)
  \/ \E r \in Runs : InitWrite(r)
  \/ \E r \in Runs, rc \in init_rcs : InitRelock(r, rc)
  \/ \E r \in Runs, rc \in init_rcs : InitInfo(r, rc)
  \/ \E r \in Runs, rc \in init_rcs : InitAttrs(r, rc)
  \/ \E r \in Runs : InitUnlock(r)
  \/ \E r \in Runs, insts \in Pages(peer_instances) : FullList(r, insts)
  \/ \E r \in Runs : FullEntry(r)
  \/ \E r \in Runs : FullEntriesEnd(r)
  \/ \E r \in Runs : SpawnWindowWait(r)
  \/ \E r \in Runs : FullDrain(r)
  \/ \E r \in Runs : FullDone(r)
  \/ \E r \in Runs, ops \in Pages(peer_ops), insts \in Pages(peer_instances) : IncList(r, ops, insts)
  \/ \E r \in Runs : IncLogEntry(r)
  \/ \E r \in Runs : IncLogEntriesEnd(r)
  \/ \E r \in Runs : IncDrainAll(r)
  \/ \E r \in Runs, c \in 1..MaxChildren : ChildOperate(r, c)
  \/ \E r \in Runs, c \in 1..MaxChildren, rc \in transfer_rcs : ChildTransferDone(r, c, rc)
  \/ \E r \in Runs, c \in 1..MaxChildren : ChildFinishDone(r, c)

\* the runs, each followed by later runs on the same bucket shard
BRerunNext ==
  \/ BNext
  \/ \E r \in Runs : RunAgain(r)

(***************************************************************************)
(* Zone layer: RGWRemoteDataLog::run_sync, RGWInitDataSyncStatusCoroutine, *)
(* RGWDataSyncCR and RGWListBucketIndexesCR.  A child spawned by these     *)
(* coroutines completes at any step between its spawn and the collect loop *)
(* that harvests it; a called coroutine completes before its caller goes   *)
(* on.                                                                     *)
(***************************************************************************)
ShardIds(num_shards) == 0..(num_shards - 1)

Shards == ShardIds(NumShards)

\* RGWDataChangesLogInfo as default-constructed
NewLogInfo == [marker |-> 0, last_update |-> 0]

\* rgw_data_sync_info as default-constructed
NewSyncInfo == [state |-> "Init", num_shards |-> 0]

\* the members of run_sync and of the coroutines it runs
\*   caller         who runs the init coroutine: "run_sync" or "cr"
\*   sync_info, sync_markers   RGWDataSyncCR::sync_status
\*   status, shards_info       members of the init coroutine
\*   reads, writes  children spawned and not yet complete, by shard
\*   failed         whether a completed child returned an error
\*   init_ret       how the init coroutine returned: "none", "ok" or "error"
\*   result, iter, meta_info, appended, build_failed, build_ret
\*                  members of RGWListBucketIndexesCR and its return code
\*   shard_crs      RGWDataSyncCR::shard_crs: per shard spawned, the position
\*                  of its RGWDataSyncShardCR and that coroutine's sync_marker
\*   data_sync_cr   RGWRemoteDataLog::data_sync_cr: "NULL", or "held" when it
\*                  points to a RGWDataSyncCR on which get() was called
\*   rs_ret         how the last run_sync returned: "none", "ok" or "error"
NewDriver ==
  [pc |-> "idle", caller |-> "run_sync",
   sync_info |-> NewSyncInfo, sync_markers |-> <<>>,
   status |-> NewSyncInfo, shards_info |-> [i \in Shards |-> NewLogInfo],
   reads |-> {}, writes |-> {}, failed |-> FALSE, init_ret |-> "none",
   result |-> <<>>, iter |-> 1, meta_info |-> [bucket |-> "", num_shards |-> 0],
   appended |-> [i \in Shards |-> {}], build_failed |-> FALSE, build_ret |-> 0,
   shard_crs |-> <<>>, data_sync_cr |-> "NULL", rs_ret |-> "none"]

ZInit ==
  /\ remote_info = [i \in Shards |-> NewLogInfo]
  /\ zone_obj = <<>>
  /\ zone_locked = FALSE
  /\ zshard_obj = [i \in Shards |-> <<>>]
  /\ full_index = [i \in Shards |-> {}]
  /\ zruns = 0
  /\ zd = NewDriver

\* the zone layer at rest
ZOff ==
  /\ remote_info = [i \in Shards |-> NewLogInfo]
  /\ zone_obj = <<>>
  /\ zone_locked = FALSE
  /\ zshard_obj = [i \in Shards |-> <<>>]
  /\ full_index = [i \in Shards |-> {}]
  /\ zruns = 0
  /\ zd = [NewDriver EXCEPT !.pc = "off"]

\* the peer logs a change in shard i of its datalog
RemoteHeadAdvance(i) ==
  /\ remote_info[i].marker < MaxHead
  /\ remote_info' = [remote_info EXCEPT ![i] =
                       [marker |-> @.marker + 1, last_update |-> 2 * (@.marker + 1)]]
  /\ UNCHANGED <<zone_obj, zone_locked, zshard_obj, full_index, zruns, zd>>
  /\ UNCHANGED <<tvars, svars, bvars>>

\* run_sync(num_shards) is called
RunSync ==
  /\ zd.pc = "idle"
  /\ zruns < MaxRuns
  /\ zruns' = zruns + 1
  /\ zd' = [NewDriver EXCEPT !.pc = "rs_read", !.data_sync_cr = zd.data_sync_cr]
  /\ UNCHANGED <<remote_info, zone_obj, zone_locked, zshard_obj, full_index>>
  /\ UNCHANGED <<tvars, svars, bvars>>

\* the init coroutine as constructed for num_shards, about to take the lock
BeginInit(d, caller, num_shards) ==
  [d EXCEPT !.pc = "init_lock", !.caller = caller,
            !.status = [NewSyncInfo EXCEPT !.num_shards = num_shards],
            !.shards_info = [i \in Shards |-> NewLogInfo],
            !.reads = {}, !.writes = {}, !.failed = FALSE]

\* run_sync reads the zone status: absent means init, else the zone driver
RunSyncRead ==
  /\ zd.pc = "rs_read"
  /\ zd' = IF zone_obj = <<>> THEN BeginInit(zd, "run_sync", NumShards)
           ELSE [zd EXCEPT !.pc = "cr_read"]
  /\ UNCHANGED <<remote_info, zone_obj, zone_locked, zshard_obj, full_index, zruns>>
  /\ UNCHANGED <<tvars, svars, bvars>>

\* where the init coroutine's caller goes on once it has returned
AfterInitReturn(d, ok) ==
  LET r == [d EXCEPT !.init_ret = IF ok THEN "ok" ELSE "error"]
  IN IF d.caller = "cr" THEN [r EXCEPT !.pc = "cr_set_building"]
     ELSE IF ok THEN [r EXCEPT !.pc = "cr_read"]
     ELSE [r EXCEPT !.pc = "idle", !.rs_ret = "error"]

\* init: take sync_lock on the zone status object
ZInitLock ==
  /\ zd.pc = "init_lock"
  /\ zone_locked' = TRUE
  /\ zd' = [zd EXCEPT !.pc = "init_write"]
  /\ UNCHANGED <<remote_info, zone_obj, zshard_obj, full_index, zruns>>
  /\ UNCHANGED <<tvars, svars, bvars>>

\* init: write the status, which recreates the object
ZInitWrite ==
  /\ zd.pc = "init_write"
  /\ zone_obj' = <<zd.status>>
  /\ zone_locked' = FALSE
  /\ zd' = [zd EXCEPT !.pc = "init_relock"]
  /\ UNCHANGED <<remote_info, zshard_obj, full_index, zruns>>
  /\ UNCHANGED <<tvars, svars, bvars>>

\* init: take the lock again, then spawn the read of every shard's log info
ZInitRelock ==
  /\ zd.pc = "init_relock"
  /\ zone_locked' = TRUE
  /\ zd' = [zd EXCEPT !.pc = "init_reads", !.reads = ShardIds(zd.status.num_shards)]
  /\ UNCHANGED <<remote_info, zone_obj, zshard_obj, full_index, zruns>>
  /\ UNCHANGED <<tvars, svars, bvars>>

\* init: RGWReadRemoteDataLogShardInfoCR of shard i returns rc; an error ends
\* init, the last success spawns the write of every shard's marker
ZInitReadDone(i, rc) ==
  /\ zd.pc = "init_reads"
  /\ i \in zd.reads
  /\ zd' = IF rc < 0 THEN AfterInitReturn([zd EXCEPT !.reads = {}], FALSE)
           ELSE LET d == [zd EXCEPT !.shards_info[i] = remote_info[i],
                                    !.reads = @ \ {i}]
                IN IF d.reads = {}
                   THEN [d EXCEPT !.pc = "init_status",
                                  !.writes = ShardIds(zd.status.num_shards)]
                   ELSE d
  /\ UNCHANGED <<remote_info, zone_obj, zone_locked, zshard_obj, full_index, zruns>>
  /\ UNCHANGED <<tvars, svars, bvars>>

InitMarker_Default(info) == NewDataSyncMarker

\* the marker init writes for a shard whose log info is info
InitMarker(info) ==
  [NewDataSyncMarker EXCEPT !.next_step_marker = info.marker,
                            !.timestamp = info.last_update]

\* the write of shard i's marker, spawned by init or by the index build,
\* completes with rc
ZMarkerWriteDone(i, rc) ==
  /\ zd.pc \in {"init_status", "init_unlock", "init_collect", "build_collect"}
  /\ i \in zd.writes
  /\ IF rc < 0
     THEN /\ zd' = [zd EXCEPT !.writes = @ \ {i}, !.failed = TRUE]
          /\ UNCHANGED zshard_obj
     ELSE /\ zd' = [zd EXCEPT !.writes = @ \ {i}]
          /\ zshard_obj' = [zshard_obj EXCEPT ![i] =
               <<IF zd.pc = "build_collect" THEN zd.sync_markers[i]
                 ELSE InitMarker(zd.shards_info[i])>>]
  /\ UNCHANGED <<remote_info, zone_obj, zone_locked, full_index, zruns>>
  /\ UNCHANGED <<tvars, svars, bvars>>

\* init: write the status with state BuildingFullSyncMaps
ZInitStatusWrite ==
  /\ zd.pc = "init_status"
  /\ zone_obj' = <<[zd.status EXCEPT !.state = "BuildingFullSyncMaps"]>>
  /\ zone_locked' = FALSE
  /\ zd' = [zd EXCEPT !.status.state = "BuildingFullSyncMaps", !.pc = "init_unlock"]
  /\ UNCHANGED <<remote_info, zshard_obj, full_index, zruns>>
  /\ UNCHANGED <<tvars, svars, bvars>>

\* init: unlock
ZInitUnlock ==
  /\ zd.pc = "init_unlock"
  /\ zone_locked' = FALSE
  /\ zd' = [zd EXCEPT !.pc = "init_collect"]
  /\ UNCHANGED <<remote_info, zone_obj, zshard_obj, full_index, zruns>>
  /\ UNCHANGED <<tvars, svars, bvars>>

\* init: every marker write has been collected; return
ZInitCollect ==
  /\ zd.pc = "init_collect"
  /\ zd.writes = {}
  /\ zd' = AfterInitReturn(zd, ~zd.failed)
  /\ UNCHANGED <<remote_info, zone_obj, zone_locked, zshard_obj, full_index, zruns>>
  /\ UNCHANGED <<tvars, svars, bvars>>

\* the bucket instances the peer's metadata lists, and their shard counts
BucketInstances == <<"b1:A", "b2:B">>

PeerNumShards(key) == IF key = "b1:A" THEN 2 ELSE 0

\* the datalog shard the source hash gives a bucket and shard (-1: unsharded)
LogShardId(bucket, shard) ==
  IF bucket = "b1:A" THEN (IF shard = 0 THEN 0 ELSE 1)
  ELSE IF bucket = "b2:B" THEN 0
  ELSE 1

\* the bucket-shard identifiers of a bucket instance with num_shards shards
ShardKeys(key, num_shards) ==
  IF num_shards > 0 THEN [i \in ShardIds(num_shards) |-> key \o ":" \o ToString(i)]
  ELSE [i \in {0 - 1} |-> key]

\* the status RGWReadDataSyncStatusCoroutine hands back: the persisted info and,
\* per shard, the persisted marker or a default one where none is stored
ReadSyncMarkers(num_shards) ==
  [i \in ShardIds(num_shards) |->
     IF zshard_obj[i] = <<>> THEN NewDataSyncMarker ELSE zshard_obj[i][1]]

\* RGWListBucketIndexesCR as constructed
BeginBuild(d) ==
  [d EXCEPT !.pc = "build_list", !.result = <<>>, !.iter = 1,
            !.meta_info = [bucket |-> "", num_shards |-> 0],
            !.appended = [i \in Shards |-> {}], !.build_failed = FALSE,
            !.build_ret = 0, !.writes = {}, !.failed = FALSE]

\* run_sync after the sync task has returned r: an error is handed on as it
\* is; else the reference is dropped and the pointer cleared
RunSyncReturn(d, r) ==
  IF r < 0 THEN [d EXCEPT !.pc = "idle", !.rs_ret = "error"]
  ELSE [d EXCEPT !.pc = "idle", !.rs_ret = "ok", !.data_sync_cr = "NULL"]

\* run_sync creates data_sync_cr, takes a reference and runs it;
\* RGWDataSyncCR reads the status, which returns rc, and dispatches on the
\* zone state; a failed read ends the sync task in error
ZCrRead(rc) ==
  /\ zd.pc = "cr_read"
  /\ zd' = IF rc < 0 \/ zone_obj = <<>>
           THEN RunSyncReturn([zd EXCEPT !.data_sync_cr = "held"],
                              IF rc < 0 THEN rc ELSE ENOENT)
           ELSE LET d == [zd EXCEPT !.data_sync_cr = "held",
                                    !.sync_info = zone_obj[1],
                                    !.sync_markers = ReadSyncMarkers(zone_obj[1].num_shards)]
                IN IF d.sync_info.state = "Init"
                   THEN BeginInit(d, "cr", d.sync_info.num_shards)
                   ELSE IF d.sync_info.state = "BuildingFullSyncMaps"
                   THEN BeginBuild(d)
                   ELSE [d EXCEPT !.pc = "cr_spawn"]
  /\ UNCHANGED <<remote_info, zone_obj, zone_locked, zshard_obj, full_index, zruns>>
  /\ UNCHANGED <<tvars, svars, bvars>>

\* RGWDataSyncCR, init returned: set and write state BuildingFullSyncMaps
ZCrSetBuilding ==
  /\ zd.pc = "cr_set_building"
  /\ LET info == [zd.sync_info EXCEPT !.state = "BuildingFullSyncMaps"]
     IN /\ zone_obj' = <<info>>
        /\ zd' = BeginBuild([zd EXCEPT !.sync_info = info])
  /\ zone_locked' = FALSE
  /\ UNCHANGED <<remote_info, zshard_obj, full_index, zruns>>
  /\ UNCHANGED <<tvars, svars, bvars>>

\* index build: the peer's list of bucket instances arrives, or fails with rc
ZBuildList(rc) ==
  /\ zd.pc = "build_list"
  /\ zd' = IF rc < 0 THEN [zd EXCEPT !.build_ret = rc, !.pc = "cr_set_sync"]
           ELSE [zd EXCEPT !.result = BucketInstances, !.iter = 1, !.pc = "build_keys"]
  /\ UNCHANGED <<remote_info, zone_obj, zone_locked, zshard_obj, full_index, zruns>>
  /\ UNCHANGED <<tvars, svars, bvars>>

\* what meta_info holds once the metadata read of key has returned rc
MetaInfoAfter(meta_info, key, rc) ==
  IF rc < 0 THEN meta_info ELSE [bucket |-> key, num_shards |-> PeerNumShards(key)]

\* entries_index after appending every shard identifier of key as meta_info
\* describes it
AppendKeys(appended, key, meta_info) ==
  LET keys == ShardKeys(key, meta_info.num_shards)
  IN [i \in Shards |->
        appended[i] \cup {keys[sh] : sh \in {x \in DOMAIN keys :
                                              LogShardId(meta_info.bucket, x) = i}}]

\* index build: one iteration of the loop over the listed bucket instances
ZBuildKey(rc) ==
  /\ zd.pc = "build_keys"
  /\ zd.iter <= Len(zd.result)
  /\ LET key == zd.result[zd.iter]
         meta == MetaInfoAfter(zd.meta_info, key, rc)
     IN zd' = [zd EXCEPT !.meta_info = meta,
                         !.appended = AppendKeys(zd.appended, key, meta),
                         !.iter = zd.iter + 1]
  /\ UNCHANGED <<remote_info, zone_obj, zone_locked, zshard_obj, full_index, zruns>>
  /\ UNCHANGED <<tvars, svars, bvars>>

\* the markers the index build writes: those of sync_status with total_entries set
WithTotalEntries(sync_markers, appended) ==
  [i \in DOMAIN sync_markers |->
     [sync_markers[i] EXCEPT !.total_entries = Cardinality(appended[i])]]

\* index build: entries_index->finish() flushes the index shards, of which
\* those in flushed are written; when all are, spawn the write of every marker
\* of sync_status
ZBuildFinish(flushed) ==
  /\ zd.pc = "build_keys"
  /\ zd.iter > Len(zd.result)
  /\ full_index' = [i \in Shards |-> IF i \in flushed
                                     THEN full_index[i] \cup zd.appended[i]
                                     ELSE full_index[i]]
  /\ zd' = IF flushed = Shards
           THEN [zd EXCEPT !.sync_markers = WithTotalEntries(@, zd.appended),
                           !.writes = DOMAIN zd.sync_markers,
                           !.pc = "build_collect"]
           ELSE [zd EXCEPT !.build_failed = TRUE, !.pc = "build_collect"]
  /\ UNCHANGED <<remote_info, zone_obj, zone_locked, zshard_obj, zruns>>
  /\ UNCHANGED <<tvars, svars, bvars>>

\* index build: every marker write has been collected; return
ZBuildCollect ==
  /\ zd.pc = "build_collect"
  /\ zd.writes = {}
  /\ zd' = [zd EXCEPT !.build_ret = IF zd.failed THEN EIO ELSE 0, !.pc = "cr_set_sync"]
  /\ UNCHANGED <<remote_info, zone_obj, zone_locked, zshard_obj, full_index, zruns>>
  /\ UNCHANGED <<tvars, svars, bvars>>

\* RGWDataSyncCR, index build returned: set and write state Sync
ZCrSetSync ==
  /\ zd.pc = "cr_set_sync"
  /\ LET info == [zd.sync_info EXCEPT !.state = "Sync"]
     IN /\ zone_obj' = <<info>>
        /\ zd' = [zd EXCEPT !.sync_info = info, !.pc = "cr_spawn"]
  /\ zone_locked' = FALSE
  /\ UNCHANGED <<remote_info, zshard_obj, full_index, zruns>>
  /\ UNCHANGED <<tvars, svars, bvars>>

\* RGWDataSyncCR in state Sync: spawn a shard coroutine per marker of
\* sync_status, each constructed with its shard id and its marker, and
\* register it in shard_crs
ZCrSpawnShards ==
  /\ zd.pc = "cr_spawn"
  /\ zd.sync_info.state = "Sync"
  /\ zd' = [zd EXCEPT !.pc = "sync",
                      !.shard_crs = [i \in DOMAIN zd.sync_markers |->
                                       [pc |-> "running",
                                        sync_marker |-> zd.sync_markers[i]]]]
  /\ UNCHANGED <<remote_info, zone_obj, zone_locked, zshard_obj, full_index, zruns>>
  /\ UNCHANGED <<tvars, svars, bvars>>

ZShardFail_All(i) ==
  /\ zd.pc = "sync"
  /\ i \in DOMAIN zd.shard_crs
  /\ zd.shard_crs[i].pc = "running"
  /\ zd' = [zd EXCEPT !.shard_crs = [j \in DOMAIN @ |-> [@[j] EXCEPT !.pc = "error"]]]
  /\ UNCHANGED <<remote_info, zone_obj, zone_locked, zshard_obj, full_index, zruns>>
  /\ UNCHANGED <<tvars, svars, bvars>>

\* the coroutine of shard i ends in error: a listing of its full-sync index or
\* a read of the peer's shard head failed and it returned set_cr_error
ZShardFail(i) ==
  /\ zd.pc = "sync"
  /\ i \in DOMAIN zd.shard_crs
  /\ zd.shard_crs[i].pc = "running"
  /\ zd' = [zd EXCEPT !.shard_crs[i].pc = "error"]
  /\ UNCHANGED <<remote_info, zone_obj, zone_locked, zshard_obj, full_index, zruns>>
  /\ UNCHANGED <<tvars, svars, bvars>>

\* the coroutine of shard i completes its full sync: it writes its marker
\* object with state IncrementalSync and goes on to the incremental loop
ZShardFullDone(i) ==
  /\ zd.pc = "sync"
  /\ i \in DOMAIN zd.shard_crs
  /\ zd.shard_crs[i].pc = "running"
  /\ zd.shard_crs[i].sync_marker.state = "FullSync"
  /\ LET sm == FullSyncDoneMarker(zd.shard_crs[i].sync_marker)
     IN /\ zd' = [zd EXCEPT !.shard_crs[i].sync_marker = sm]
        /\ zshard_obj' = [zshard_obj EXCEPT ![i] = <<sm>>]
  /\ UNCHANGED <<remote_info, zone_obj, zone_locked, full_index, zruns>>
  /\ UNCHANGED <<tvars, svars, bvars>>

\* the coroutine of shard i, in its incremental loop, finds the peer's head
\* beyond its marker: the workers of the next entry finish and the tracker
\* stores the entry's marker in the shard's marker object
ZShardIncAdvance(i) ==
  /\ zd.pc = "sync"
  /\ i \in DOMAIN zd.shard_crs
  /\ zd.shard_crs[i].pc = "running"
  /\ zd.shard_crs[i].sync_marker.state = "IncrementalSync"
  /\ remote_info[i].marker > zd.shard_crs[i].sync_marker.marker
  /\ LET sm == DataStoreMarker(zd.shard_crs[i].sync_marker,
                               zd.shard_crs[i].sync_marker.marker + 1, 0)
     IN /\ zd' = [zd EXCEPT !.shard_crs[i].sync_marker = sm]
        /\ zshard_obj' = [zshard_obj EXCEPT ![i] = <<sm>>]
  /\ UNCHANGED <<remote_info, zone_obj, zone_locked, full_index, zruns>>
  /\ UNCHANGED <<tvars, svars, bvars>>

\* every shard coroutine has ended, RGWDataSyncCR has returned done and
\* run(data_sync_cr) returns r to run_sync
ZRunReturns(r) ==
  /\ zd.pc = "sync"
  /\ \A i \in DOMAIN zd.shard_crs : zd.shard_crs[i].pc # "running"
  /\ zd' = RunSyncReturn(zd, r)
  /\ UNCHANGED <<remote_info, zone_obj, zone_locked, zshard_obj, full_index, zruns>>
  /\ UNCHANGED <<tvars, svars, bvars>>

ZNext ==
  \/ \E i \in Shards : RemoteHeadAdvance(i)
  \/ RunSync
  \/ RunSyncRead
  \/ ZInitLock
  \/ ZInitWrite
  \/ ZInitRelock
  \/ \E i \in Shards, rc \in {0, EIO} : ZInitReadDone(i, rc)
  \/ \E i \in Shards, rc \in {0, EIO} : ZMarkerWriteDone(i, rc)
  \/ ZInitStatusWrite
  \/ ZInitUnlock
  \/ ZInitCollect
  \/ \E rc \in {0, EIO} : ZCrRead(rc)
  \/ ZCrSetBuilding
  \/ \E rc \in {0, EIO} : ZBuildList(rc)
  \/ \E rc \in {0, EIO} : ZBuildKey(rc)
  \/ \E flushed \in SUBSET Shards : ZBuildFinish(flushed)
  \/ ZBuildCollect
  \/ ZCrSetSync
  \/ ZCrSpawnShards
  \/ \E i \in Shards : ZShardFail(i)
  \/ \E i \in Shards : ZShardFullDone(i)
  \/ \E i \in Shards : ZShardIncAdvance(i)
  \/ \E r \in {0, EIO} : ZRunReturns(r)

TrackerInit == TInit /\ SOff /\ BOff /\ ZOff

SpecTracker == TrackerInit /\ [][TNext]_vars

Init == SInit /\ TOff /\ BOff /\ ZOff

Spec == Init /\ [][SNext]_vars

BucketInit == BInit /\ TOff /\ SOff /\ ZOff

SpecBucket == BucketInit /\ [][BRerunNext]_vars

BucketPairInit == BPairInit /\ TOff /\ SOff /\ ZOff

SpecBucketPair == BucketPairInit /\ [][BNext]_vars

ZoneInit == ZInit /\ TOff /\ SOff /\ BOff

SpecZone == ZoneInit /\ [][ZNext]_vars

\* either the zone layer or the bucket shard layer, each started with its
\* status object absent
StatusAbsentInit == TOff /\ SOff /\ ((ZInit /\ BOff) \/ (ZOff /\ BInit))

ZoneStep == zd.pc # "off" /\ ZNext

BucketStep == zd.pc = "off" /\ BRerunNext

StatusAbsentNext == ZoneStep \/ BucketStep

SpecStatusAbsent == StatusAbsentInit /\ [][StatusAbsentNext]_vars

ShardFullInit == SFullInit /\ TOff /\ BOff /\ ZOff

SpecShardFull == ShardFullInit /\ [][FNext]_vars

SpecShardResume == ShardFullInit /\ [][FResumeNext]_vars

(***************************************************************************)
(* Claims.                                                                 *)
(***************************************************************************)

\* the highest started marker M such that M and every marker started before
\* it have finished (0 when the first started marker is still in flight)
PrefixHighWater(started, finished) ==
  Max({m \in 0..started : \A x \in 1..m : x \in finished})

\* C1: for each of the three trackers, every value handed to store_marker is
\* the highest started marker such that it and every marker started before it
\* have finished, whatever the update window (1 or 10) and the finish order.
C1_ContiguousPrefixCommit ==
  [][tk_writes' # tk_writes =>
       StoredPosition(tk_kind, tk_obj') = PrefixHighWater(tk_next' - 1, tk_finished')]_vars

\* C1 witness: a bucket tracker (window 10) has committed while a marker is
\* still in flight and a completion above it is buffered.
C1_Witness ==
  /\ tk_kind = "bucket_inc"
  /\ tk_writes > 0
  /\ tk.pending # {}
  /\ \E m \in tk_finished : m > Min(tk.pending)
  /\ tk_obj.position = Min(tk.pending) - 1

\* a worker whose bucket-shard sync is running
Syncing(w) == w.pc = "sync"

\* C3: when the bucket-shard sync run for a datalog entry fails, the worker
\* does not finish the entry marker: the marker stays pending in the tracker
\* and the persisted datalog-shard marker stays below that entry.
C3_FailedEntryStaysPending ==
  \A i \in DOMAIN workers :
    LET w == workers[i] IN
      (w.entry_marker # 0 /\ w.pc \in {"finish", "done", "error"} /\ w.sync_status < 0)
        => /\ w.entry_marker \in marker_tracker.pending
           /\ shard_obj.marker < w.entry_marker

\* C4: at every moment at most one worker of the shard is running the
\* bucket-shard sync of any given bucket-shard key.
C4_OneSyncPerKey ==
  \A i, j \in DOMAIN workers :
    (i # j /\ Syncing(workers[i]) /\ Syncing(workers[j]))
      => workers[i].raw_key # workers[j].raw_key

\* C5: when the loop visits a datalog entry whose key has a worker in flight,
\* the dedup check rejects it: no worker is spawned and the key is put in the
\* retry set.
C5_InFlightKeyIsRejected ==
  [][(/\ sh_pc = "inc_entries"
      /\ log_iter <= Len(log_entries)
      /\ log_iter' = log_iter + 1
      /\ \E i \in DOMAIN workers :
           /\ workers[i].pc \in {"start", "sync"}
           /\ workers[i].raw_key = log_entries[log_iter].key)
     => /\ workers' = workers
        /\ log_entries[log_iter].key \in data_track'.need_retry_set]_vars


FullChild(r, c) == run[r].phase = "full" /\ c \in DOMAIN run[r].children

\* C2: in bucket-shard sync, an entry whose fetch or remove failed is not
\* finished: its marker stays pending in the run's tracker and the persisted
\* full_marker / inc_marker stays below the entry
C2_FailedTransferStaysPending ==
  \A r \in Runs : \A c \in DOMAIN run[r].children :
    LET child == run[r].children[c]
        persisted == IF run[r].phase = "full" THEN bucket_obj.full_marker.position
                     ELSE bucket_obj.inc_marker.position
    IN (child.called # "none" /\ child.pc \in {"finish", "done", "error"}
          /\ child.sync_status < 0)
         => /\ child.entry_marker \in run[r].mt.pending
            /\ persisted < child.entry_marker

StateRank(state) ==
  IF state = "Init" THEN 0 ELSE IF state = "FullSync" THEN 1 ELSE 2

\* C6: the persisted state of a bucket-shard status never regresses: no step
\* writes an earlier state over a later one
C6_StateNeverRegresses ==
  [][StateRank(bucket_obj'.state) >= StateRank(bucket_obj.state)]_vars

\* C7: while the persisted phase stays the same, no write replaces the
\* persisted full or incremental marker of a bucket shard with a smaller one
C7_MarkerNonDecreasing ==
  [][bucket_obj'.state = bucket_obj.state
       => /\ bucket_obj'.full_marker.position >= bucket_obj.full_marker.position
          /\ bucket_obj'.inc_marker.position >= bucket_obj.inc_marker.position]_vars

\* C8: in the run that performed Init, the first index-log listing of the
\* Incremental phase starts from the log head position captured at Init
C8_FirstListingFromInitMarker ==
  \A r \in Runs :
    (run[r].pc = "inc_list" /\ run[r].inc_marker = run[r].sync_status.inc_marker
       /\ run[r].info_max_marker >= 0)
      => run[r].inc_marker.position = run[r].info_max_marker

\* C9: a worker for an Add entry with a version instance calls no transfer
\* primitive, ends without error, and its marker has left the pending set
C9_SkippedEntryIsFinished ==
  \A r \in Runs : \A c \in DOMAIN run[r].children :
    LET child == run[r].children[c]
    IN (child.op = "Add" /\ Versioned(child.instance) /\ Ended(child))
         => /\ child.called = "none"
            /\ child.pc = "done"
            /\ child.entry_marker \notin run[r].mt.pending

\* C10 as stated: in the Full phase a listing entry with a version instance is
\* treated as Add and never causes a fetch
C10_FullVersionedSkipped ==
  \A r \in Runs : \A c \in DOMAIN run[r].children :
    (FullChild(r, c) /\ Versioned(run[r].children[c].instance))
      => /\ run[r].children[c].op = "Add"
         /\ run[r].children[c].called # "fetch"

\* C10: in the Full phase a listing entry with a version instance is
\* dispatched as LinkOLH and, once its worker has run, has been fetched
C10_FullVersionedFetched ==
  \A r \in Runs : \A c \in DOMAIN run[r].children :
    (FullChild(r, c) /\ Versioned(run[r].children[c].instance))
      => /\ run[r].children[c].op = "LinkOLH"
         /\ (run[r].children[c].pc # "start" => run[r].children[c].called = "fetch")

C10_Witness ==
  \E r \in Runs : \E c \in DOMAIN run[r].children :
    /\ FullChild(r, c)
    /\ Versioned(run[r].children[c].instance)
    /\ run[r].children[c].called = "fetch"
    /\ Ended(run[r].children[c])


\* the init coroutine has just returned without error
InitSucceeded == zd.init_ret = "ok" /\ zd.pc \in {"cr_read", "cr_set_building"}

C13_BuildKeepsNextStepMarker ==
  [][\A i \in Shards :
       (zd.pc = "build_collect" /\ zshard_obj[i] # <<>> /\ zshard_obj'[i] # zshard_obj[i])
         => zshard_obj'[i][1].next_step_marker = zshard_obj[i][1].next_step_marker]_vars

\* the index build has returned to the zone driver
BuildReturned == zd.pc \in {"cr_set_sync", "cr_spawn", "sync"}

\* C15: the zone state is written as Sync and the shard coroutines are
\* started only after an index build that met no failure
C15_SyncOnlyAfterCleanBuild ==
  zd.pc \in {"cr_spawn", "sync"} => (zd.build_ret = 0 /\ ~zd.build_failed)

\* the keys the source hash assigns to index shard i
ExpectedIndex(i) ==
  UNION {LET keys == ShardKeys(BucketInstances[b], PeerNumShards(BucketInstances[b]))
         IN {keys[sh] : sh \in {x \in DOMAIN keys :
                                  LogShardId(BucketInstances[b], x) = i}}
         : b \in DOMAIN BucketInstances}

\* C16: once the index build has returned done, each index shard holds exactly
\* the bucket-shard identifiers the source hash assigns to it
C16_IndexHoldsExactlyTheKeys ==
  (BuildReturned /\ zd.build_ret = 0) => \A i \in Shards : full_index[i] = ExpectedIndex(i)

\* C17: once the index build has returned done, each persisted shard marker's
\* total_entries is the number of keys appended to that shard's index
C17_TotalEntriesIsIndexSize ==
  (BuildReturned /\ zd.build_ret = 0) =>
    \A i \in Shards : /\ zshard_obj[i] # <<>>
                      /\ zshard_obj[i][1].total_entries = Cardinality(full_index[i])

(***************************************************************************)
(* Datalog shard full sync.                                                *)
(***************************************************************************)
\* C14: a datalog shard in FullSync writes the IncrementalSync state only once
\* every worker its full phase spawned has completed; the record written has
\* state IncrementalSync, marker = the previous next_step_marker and an empty
\* next_step_marker; and the incremental loop starts from that marker
C14_FullToIncremental ==
  [][/\ (shard_obj.state = "FullSync" /\ shard_obj'.state = "IncrementalSync") =>
          /\ AllWorkersEnded(workers)
          /\ Len(workers) = Len(omap_index)
          /\ shard_obj'.marker = shard_obj.next_step_marker
          /\ shard_obj'.next_step_marker = 0
     /\ (sh_pc = "inc_begin" /\ sh_pc' # "inc_begin") =>
          /\ sh_pc' = "inc_drain"
          /\ sync_marker'.marker = shard_obj.marker
          /\ shard_obj.state = "IncrementalSync"
     /\ (sh_pc = "inc_log" /\ sh_pc' = "inc_entries" /\ Len(log_entries') > 0
         /\ \A i \in DOMAIN workers : workers[i].entry_marker # 0 =>
                                        i <= Len(omap_index)) =>
          log_entries'[1].log_id = shard_obj.marker + 1
    ]_vars

\* the full phase synced two index keys, moved to IncrementalSync at marker 1
\* and the incremental loop fetched the log entry after it
C14_Witness ==
  /\ sh_pc = "inc_entries"
  /\ Len(omap_index) = 2
  /\ shard_obj.state = "IncrementalSync"
  /\ shard_obj.marker = 1
  /\ shard_obj.next_step_marker = 0
  /\ Len(log_entries) = 1
  /\ log_entries[1].log_id = 2

(***************************************************************************)
(* Bucket shard spawn window and the end of the Full phase.                *)
(***************************************************************************)
\* the children of run r that have been spawned and have not completed
InFlight(r) == {c \in DOMAIN run[r].children : ~Ended(run[r].children[c])}

\* C18: during bucket-shard Full and Incremental sync the single-entry workers
\* in flight for the bucket shard never exceed the spawn limit
C18_InFlightWithinWindow ==
  \A r \in Runs : Cardinality(InFlight(r)) <= SpawnWindow

\* run r takes the step that ends its Full phase, and every child it spawned
\* since the last drain has completed without error
FullCompletes(r) ==
  /\ run[r].pc = "full_drain"
  /\ run'[r].pc = "full_setstate"
  /\ \A c \in DOMAIN run[r].children :
       run[r].children[c].pc = "done" /\ run[r].children[c].sync_status = 0

\* C19: when the bucket-shard Full phase completes with every transfer
\* successful, the persisted full_marker.position is the last key listed,
\* full_marker.count is the total number of entries listed and the persisted
\* state is IncrementalSync
C19_FullCompletionPersisted ==
  [][\A r \in Runs : FullCompletes(r) =>
        /\ bucket_obj'.state = "IncrementalSync"
        /\ bucket_obj'.full_marker.position = MaxObjs
        /\ bucket_obj'.full_marker.count = MaxObjs]_vars

\* C20: an entry whose transfer failed during the bucket-shard Full phase is
\* attempted again by a later pass: the re-run enters the Full phase and lists
\* from a position before that entry, so that it lists and dispatches it again
C20_FailedFullEntryRelisted ==
  [][\A r \in Runs :
        (/\ run[r].pass > 1
         /\ run[r].pc = "read_status"
         /\ run'[r].pc # "read_status"
         /\ run[r].full_failed # {}) =>
            /\ run'[r].pc = "full_list"
            /\ run'[r].list_marker < Min(run[r].full_failed)]_vars

C22_WakeupEndsIdleWait ==
  [][/\ \A keys \in SUBSET BucketShardKeys :
          (Wakeup(keys) /\ sh_pc = "inc_wait") =>
             /\ sh_pc' = "inc_woken"
             /\ keys \subseteq modified_shards'
     /\ (sh_pc = "inc_woken" /\ sh_pc' # "inc_woken") =>
          /\ sh_pc' = "inc_modified"
          /\ modified_iter' = modified_shards
          /\ workers' = workers
     /\ ~(sh_pc = "inc_modified" /\ modified_iter # {} /\ sh_pc' # "inc_modified")
     /\ (sh_pc = "inc_modified" /\ modified_iter' # modified_iter) =>
          \E k \in modified_iter :
             /\ modified_iter' = modified_iter \ {k}
             /\ Len(workers') = Len(workers) + 1
             /\ workers'[Len(workers')].raw_key = k
             /\ workers'[Len(workers')].entry_marker = 0
    ]_vars

\* a shard woken out of its idle wait with notified keys to drain
C22_Witness ==
  /\ sh_pc = "inc_woken"
  /\ modified_shards # {}
  /\ datalog_marker = sync_marker.marker

\* C30: when the peer's head is the local position, the iteration reads no
\* page, spawns no worker for a log entry and writes no marker, and the shard
\* enters its idle wait; no step of the shard's own loop writes the shard's
\* marker object, and the shard leaves the wait only for the top of the loop.
C30_NothingNewIdles ==
  [][/\ (/\ sh_pc = "inc_modified" /\ modified_iter = {}
         /\ sh_pc' \notin {"inc_modified", "error"}
         /\ Len(datalog) = sync_marker.marker) =>
           /\ sh_pc' = "inc_wait"
           /\ shard_obj' = shard_obj
           /\ sync_marker' = sync_marker
           /\ log_entries' = log_entries
           /\ workers' = workers
     /\ (sh_pc' # sh_pc) => shard_obj' = shard_obj
     /\ (sh_pc = "inc_wait" /\ sh_pc' # "inc_wait") =>
           sh_pc' \in {"inc_drain", "inc_woken"}
    ]_vars

\* a shard idle at the peer's head after it consumed the whole log
C30_Witness ==
  /\ sh_pc = "inc_wait"
  /\ Len(datalog) > 0
  /\ datalog_marker = Len(datalog)
  /\ sync_marker.marker = datalog_marker

\* C26: key_to_marker and marker_to_key hold bindings only for markers that
\* are in flight: every binding names, on one side or the other, the log id of
\* a marker that was started and is not finished yet.
C26_BindingsOnlyInFlight ==
  LET InFlightIds == {LogIdStr(m) : m \in marker_tracker.pending}
      Bound(f) == \A k \in DOMAIN f : k \in InFlightIds \/ f[k] \in InFlightIds
  IN /\ Bound(data_track.key_to_marker)
     /\ Bound(data_track.marker_to_key)

\* C27: no read of the peer in the incremental loop, of the shard's head or
\* of a page of its log, ends the loop: the step that takes the read's result
\* leaves the shard coroutine at a position of the loop.
C27_FailedReadKeepsLoop ==
  [][(sh_pc \in {"inc_modified", "inc_log"} /\ sh_pc' # sh_pc) => sh_pc' # "error"]_vars

\* C28: a worker whose key does not parse ends with EINVAL, and once such a
\* worker has ended the shard coroutine takes no further step of its loop: the
\* only position it moves to is the error end of its task.
ParseFailed(w) == w.pc = "error" /\ ParseBucketShard(w.raw_key).ret < 0

C28_ParseErrorEndsShard ==
  [][/\ \A i \in DOMAIN workers' : ParseFailed(workers'[i]) => workers'[i].retcode = EINVAL
     /\ ((\E i \in DOMAIN workers : ParseFailed(workers[i])) /\ sh_pc' # sh_pc) =>
          sh_pc' = "error"
    ]_vars

C25_RerunAtHeadIsNoOp ==
  \A r \in Runs :
    (/\ run[r].read_state = "IncrementalSync"
     /\ run[r].sync_status.inc_marker.position = bilog_len) =>
      /\ run[r].children = <<>>
      /\ run[r].mt.pending = {}
      /\ run[r].inc_marker = run[r].sync_status.inc_marker
      /\ bucket_obj = run[r].sync_status
      /\ run[r].pc \in {"inc_list", "inc_entries", "inc_drain", "done"}

\* a re-run that found the shard at the head of a non-empty log and returned
C25_Witness ==
  \E r \in Runs : /\ run[r].pc = "done"
                  /\ run[r].pass > 1
                  /\ run[r].read_state = "IncrementalSync"
                  /\ bilog_len > 0
                  /\ run[r].sync_status.inc_marker.position = bilog_len

(***************************************************************************)
(* Absent status objects.                                                  *)
(***************************************************************************)
InitPcs == {"init_lock", "init_write", "init_relock", "init_reads", "init_status",
            "init_unlock", "init_collect"}

\* C24: run_sync that finds no zone status object runs the init coroutine for
\* its num_shards and, once init has returned without error, goes on to the
\* zone driver with the status object in place; a bucket-shard run that finds
\* no status object holds the default status, state Init, and goes on to the
\* init coroutine; once that has returned the object is in place and the run
\* goes on to full sync, holding state FullSync.
C24_AbsentStatusMeansInit ==
  [][/\ (zd.pc = "rs_read" /\ zone_obj = <<>> /\ zd'.pc # "rs_read") =>
          /\ zd'.pc = "init_lock"
          /\ zd'.caller = "run_sync"
          /\ zd'.status = [NewSyncInfo EXCEPT !.num_shards = NumShards]
     /\ (zd.caller = "run_sync" /\ zd.pc \in InitPcs /\ zd'.pc \notin InitPcs) =>
          IF zd'.init_ret = "ok"
          THEN zd'.pc = "cr_read" /\ zone_obj # <<>>
          ELSE zd'.pc = "idle"
     /\ \A r \in Runs :
          /\ (run[r].pc = "read_status" /\ ~bucket_exists /\ run'[r].pc # "read_status") =>
               /\ run'[r].pc = "init_lock"
               /\ run'[r].sync_status = NewBucketStatus
          /\ (run[r].pc = "init_unlock" /\ run'[r].pc # "init_unlock") =>
               /\ bucket_exists
               /\ run'[r].sync_status.state = "FullSync"
               /\ run'[r].pc = "full_list"
    ]_vars

\* run_sync found no zone status object, ran init, and init returned without
\* error: the zone driver is about to read the status init wrote
C24_Witness ==
  /\ zd.pc = "cr_read"
  /\ zd.caller = "run_sync"
  /\ zd.init_ret = "ok"
  /\ zone_obj # <<>>
  /\ zruns = 1

(***************************************************************************)
(* The shard coroutines of one source zone.                                *)
(***************************************************************************)
ShardRunning(d, i) == i \in DOMAIN d.shard_crs /\ d.shard_crs[i].pc = "running"

C31_EmptyMarkerNeverFinishes ==
  [][/\ (modified_iter' # modified_iter /\ Len(workers') > Len(workers)) =>
          workers'[Len(workers')].entry_marker = 0
     /\ \A i \in DOMAIN workers :
          (workers[i].entry_marker = 0 /\ workers'[i] # workers[i]) =>
             /\ shard_obj' = shard_obj
             /\ marker_tracker' = marker_tracker
             /\ mt_sync_marker' = mt_sync_marker
             /\ workers'[i].pc \in {"sync", "done", "error"}
     /\ (shard_obj' # shard_obj) =>
          \E i \in DOMAIN workers :
             /\ workers[i].entry_marker # 0
             /\ workers[i].entry_marker \in marker_tracker.pending
             /\ workers[i].entry_marker \notin marker_tracker'.pending
             /\ workers[i].pc = "sync" /\ workers'[i].pc = "finish"
    ]_vars

\* a worker of a notified key has ended while an entry of the log is still
\* pending and nothing was written
C31_Witness ==
  /\ \E i \in DOMAIN workers : workers[i].entry_marker = 0 /\ workers[i].pc = "done"
  /\ marker_tracker.pending # {}
  /\ shard_obj.marker = 0

(***************************************************************************)
(* Bucket shard full phase.                                                *)
(***************************************************************************)
\* the listing keys the workers spawned in the current phase were given
Dispatched(rec) == {rec.children[c].entry_marker : c \in DOMAIN rec.children}

\* C32: the Full phase leaves its wait loop only back into the entry loop,
\* whatever the collected workers returned, and leaves the entry loop only to
\* list the next page or, with the listing exhausted, to drain: by then every
\* key of the listing after the phase's starting position has been dispatched.
C32_FullPhaseSurvivesWorkerFailure ==
  [][\A r \in Runs :
       /\ (run[r].pc = "full_window" /\ run'[r].pc # "full_window") =>
            run'[r].pc = "full_entries"
       /\ (run[r].pc = "full_entries"
           /\ run'[r].pc \notin {"full_entries", "full_window"}) =>
            /\ run'[r].pc \in {"full_list", "full_drain"}
            /\ (run'[r].pc = "full_drain") =>
                 /\ ~run[r].is_truncated
                 /\ Dispatched(run[r]) =
                      (run[r].sync_status.full_marker.position + 1)..MaxObjs
    ]_vars

\* a Full phase whose first worker has failed and which goes on to list the
\* next page of the bucket
C32_Witness ==
  \E r \in Runs :
    /\ run[r].pc = "full_list"
    /\ Len(run[r].children) = 1
    /\ run[r].children[1].pc = "error"
    /\ run[r].list_marker < MaxObjs

(***************************************************************************)
(* Bucket shard init.                                                      *)
(***************************************************************************)
\* C33: the init coroutine of a bucket shard reads the peer's bucket index
\* log head before it writes the status; when it returns done, the persisted status
\* has state FullSync, an empty full_marker and inc_marker.position equal to
\* the head it read, and the run has neither listed the bucket nor spawned a
\* worker.
C33_BucketInitPersistsHead ==
  [][\A r \in Runs :
       /\ (run[r].pc = "init_info" /\ run'[r].pc = "init_attrs") =>
            /\ run'[r].info_max_marker = bilog_len
            /\ bucket_obj' = bucket_obj
            /\ bucket_obj.state = "Init"
       /\ (run[r].pc = "init_unlock" /\ run'[r].pc # "init_unlock") =>
            /\ bucket_obj = [state |-> "FullSync",
                             full_marker |-> [position |-> 0, count |-> 0],
                             inc_marker |-> [position |-> run[r].info_max_marker]]
            /\ bucket_obj' = bucket_obj
            /\ run[r].info_max_marker >= 0
            /\ run[r].list_result = <<>>
            /\ run[r].children = <<>>
            /\ run'[r].pc = "full_list"
    ]_vars

(***************************************************************************)
(* Incremental phase of a bucket shard: what a worker is given and calls.  *)
(***************************************************************************)
\* C34: in the incremental phase the worker spawned for a log entry carries
\* the entry's id, op and instance, and versioned_epoch ver.epoch when
\* ver.pool < 0 and 0 otherwise; in its first step it calls the remove
\* primitive iff op is Del, and the fetch primitive iff op is LinkOLH or op is
\* Add on an entry without a version instance.
C34_IncWorkerCallsByOp ==
  [][\A r \in Runs :
       run[r].phase = "inc" =>
         /\ (run[r].pc = "inc_entries" /\ Len(run'[r].children) > Len(run[r].children)) =>
              LET entry == run[r].list_result[run[r].entries_iter]
                  child == run'[r].children[Len(run'[r].children)]
              IN /\ child.entry_marker = entry.id
                 /\ child.op = entry.op
                 /\ child.instance = entry.instance
                 /\ child.versioned_epoch =
                      (IF entry.ver.pool < 0 THEN entry.ver.epoch ELSE 0)
                 /\ child.called = "none"
         /\ \A c \in DOMAIN run[r].children :
              (c \in DOMAIN run'[r].children /\ run[r].children[c].pc = "start"
                 /\ run'[r].children[c].pc # "start") =>
                LET old == run[r].children[c]
                    new == run'[r].children[c]
                IN /\ new.called = "remove" <=> old.op = "Del"
                   /\ new.called = "fetch" <=>
                        (old.op = "LinkOLH" \/
                         (old.op = "Add" /\ old.instance \in {"", "null"}))
                   /\ new.op = old.op /\ new.instance = old.instance
                   /\ new.versioned_epoch = old.versioned_epoch
    ]_vars

\* the incremental phase has a worker in its fetch for an entry with a negative
\* ver.pool, and one that called remove for an entry with a pool id
C34_Witness ==
  \E r \in Runs :
    /\ run[r].phase = "inc"
    /\ \E c, d \in DOMAIN run[r].children :
         /\ run[r].children[c].called = "fetch"
         /\ run[r].children[c].versioned_epoch > 0
         /\ run[r].children[d].called = "remove"
         /\ run[r].children[d].versioned_epoch = 0
         /\ run[r].children[d].entry_marker = 2

(***************************************************************************)
(* The lock the init coroutines take.                                      *)
(***************************************************************************)
BucketInitPcs == {"init_lock", "init_write", "init_relock", "init_info",
                  "init_attrs", "init_unlock"}

\* C35: whenever the zone init coroutine or the init coroutine of a bucket
\* shard ends, done or in error, the lock it took on the status object is no
\* longer held.
C35_InitExitReleasesLock ==
  [][/\ (zd.pc \in InitPcs /\ zd'.pc \notin InitPcs) => ~zone_locked'
     /\ \A r \in Runs :
          (run[r].pc \in BucketInitPcs /\ run'[r].pc \notin BucketInitPcs) =>
             ~bucket_locked'
    ]_vars

(***************************************************************************)
(* A wakeup that arrives between the drain and the idle wait.              *)
(***************************************************************************)
\* C36: the idle wait of the incremental loop never runs to its timeout while
\* a key appended by wakeup is waiting in modified_shards: a key appended after
\* the drain is dispatched without the shard first sleeping INCREMENTAL_INTERVAL.
C36_NoTimeoutWithPendingKey ==
  [][~(sh_pc = "inc_wait" /\ sh_pc' = "inc_drain" /\ modified_shards # {})]_vars

(***************************************************************************)
(* A failed read of a page of the remote datalog.                          *)
(***************************************************************************)
\* C37: a page read that fails starts no worker from the entries the page
\* before it left behind: no entry of the remote datalog is registered in the
\* marker tracker or handed to a single-entry worker a second time.
C37_FailedPageStartsNoWorker ==
  [][/\ (Len(workers') > Len(workers) /\ workers'[Len(workers')].entry_marker # 0) =>
          \A i \in DOMAIN workers :
             workers[i].entry_marker # workers'[Len(workers')].entry_marker
     /\ \A m \in marker_tracker'.pending \ marker_tracker.pending :
          \A i \in DOMAIN workers : workers[i].entry_marker # m
     /\ (sh_pc = "inc_log" /\ sh_pc' # "inc_log" /\ sync_marker' = sync_marker) =>
          /\ workers' = workers
          /\ marker_tracker' = marker_tracker
    ]_vars

\* a page read failed while the peer had more to give, and the loop has walked
\* the entries of the page before it, which the dedup check turned down
C37_Witness ==
  /\ sh_pc = "inc_entries"
  /\ log_entries # <<>>
  /\ log_iter > Len(log_entries)
  /\ datalog_marker > sync_marker.marker
  /\ \A j \in DOMAIN log_entries :
       LogIdStr(log_entries[j].log_id) \in data_track.need_retry_set

(***************************************************************************)
(* Full sync of a datalog shard, interrupted and resumed.                  *)
(***************************************************************************)
\* C38: when the persisted marker of a datalog shard goes from FullSync to
\* IncrementalSync, every key of the shard's full-sync index has been handed to
\* a single-entry worker, by the shard coroutine that writes the marker or by
\* one that ran before it was interrupted.
C38_EveryIndexKeyDispatched ==
  [][(shard_obj.state = "FullSync" /\ shard_obj'.state = "IncrementalSync") =>
       \A m \in DOMAIN omap_index :
          \E i \in DOMAIN workers :
             /\ workers[i].entry_marker = m
             /\ workers[i].raw_key = omap_index[m]
    ]_vars

\* full sync was interrupted after it had persisted the marker of the first
\* key, was resumed from that marker, and has written IncrementalSync
C38_Witness ==
  /\ sh_pc = "inc_begin"
  /\ shard_obj.state = "IncrementalSync"
  /\ full_runs = 2
  /\ Len(omap_index) = 2
  /\ Len(workers) = 2
  /\ workers[1].entry_marker = 1
  /\ workers[2].entry_marker = 2

(***************************************************************************)
(* A failed metadata fetch during the index build.                         *)
(***************************************************************************)
\* C39: an iteration of the index build whose metadata fetch did not return
\* the listed bucket instance appends nothing and ends the build: the build
\* does not go on to the next key or to the flush.
C39_FailedFetchEndsBuild ==
  [][(zd.pc = "build_keys" /\ zd.iter <= Len(zd.result) /\ zd'.iter = zd.iter + 1
        /\ zd'.meta_info.bucket # zd.result[zd.iter]) =>
       /\ zd'.appended = zd.appended
       /\ zd'.pc # "build_keys"
    ]_vars

(***************************************************************************)
(* The data_sync_cr pointer of RGWRemoteDataLog.                           *)
(***************************************************************************)
\* C40: once run_sync has returned, with success or with an error, the
\* data_sync_cr pointer is NULL and no reference to the sync task is held.
C40_ReturnClearsSyncTask ==
  (zd.pc = "idle" /\ zd.rs_ret # "none") => zd.data_sync_cr = "NULL"

====
